---- MODULE Spec2Model ----
(***************************************************************************)
(* Behavioural model of the hangar control plane (Garage-ISEP/hangar_back).*)
(*                                                                         *)
(* Three resource worlds are modelled next to the request handlers:        *)
(*   - the container runtime (containers, volumes, images),                *)
(*   - the control-plane store (projects, project_participants, databases),*)
(*   - the tenant MariaDB server (databases and users).                    *)
(* A request handler is a sequence of steps, one per awaited external      *)
(* call; tokio::spawn'ed cleanups are detached tasks that interleave with  *)
(* the handlers.  Every external call may fail (bounded by MaxFaults).     *)
(***************************************************************************)
EXTENDS Integers, Sequences, FiniteSets, Bags, TLC

\* ------------------------------------------------------------------ bounds
MaxRequests == 2
MaxFaults == 1
MaxClock == 2
MaxSeqRequests == 3
MaxHealthyRequests == 4
MaxParticipantRequests == 4
MaxTeardownCalls == 4
MaxPlaintextLen == 2
MaxRun == 64
MaxChannels == 3
MaxEvents == 6
MaxReconnects == 2

\* wait_for_container_health(state, name, 10)
HealthMaxAttempts == 10
\* crypto_service::NONCE_SIZE
NONCE_SIZE == 12

\* ------------------------------------------------------------ input domains
Users == {"alice", "bob"}
\* config.admin_logins; middleware sets claims.is_admin from it
Admins == {"bob"}
ProjectNames == {"p1", "p2"}
ImageUrls == {"img1", "img2"}
Digests == {"d1", "d2"}
Slots == {1, 2}

VARIABLES
    containers,   \* runtime: set of container records
    volumes,      \* runtime: set of volume names
    images,       \* runtime: set of [tag, digest], one entry per tag
    projects,     \* store: committed rows of table projects
    participants, \* store: committed rows of project_participants, a bag of <<project_id, user>>
    databases,    \* store: committed rows of table databases
    tenantDbs,    \* tenant server: existing databases
    tenantUsers,  \* tenant server: existing users
    tasks,        \* detached tokio tasks: set of sequences of pending operations
    req,          \* request handlers in flight, by slot
    nextId,       \* serial of projects.id
    clock,        \* unix seconds, as read by SystemTime::now()
    faults,       \* injected failures of external calls so far
    nreq,         \* requests started so far
    project_channels,  \* SseManager: project_id -> sender, as a set of [key, ch]
    creation_channels, \* SseManager: user_login -> sender, as a set of [key, ch]
    senders,      \* broadcast channels by identity: values sent so far, values retained
    clients,      \* SSE connections: the receiver a stream polls and what it yielded
    listener,     \* start_docker_events_listener
    collector,    \* start_metrics_collector
    cleaner,      \* start_cleanup_task
    shutdown      \* shutdown_tx.send(()) has happened

Sse == <<project_channels, creation_channels, senders, clients, listener, collector,
         cleaner, shutdown>>
Backend == <<containers, volumes, images, projects, participants, databases,
             tenantDbs, tenantUsers, tasks, req, nextId, clock, faults, nreq>>
vars == <<containers, volumes, images, projects, participants, databases,
          tenantDbs, tenantUsers, tasks, req, nextId, clock, faults, nreq,
          project_channels, creation_channels, senders, clients, listener, collector,
          cleaner, shutdown>>

\* ------------------------------------------------------------------- names
NoName == <<>>
\* format!("{}-{}", app_prefix, project_name); blue-green names carry a timestamp >= 1
ContainerName(p, ts) == <<p, ts>>
\* format!("hangar-data-{project_name}")
VolumeName(p) == <<"data", p>>
Url(u) == <<"url", u>>
\* format!("hangar-local/{}:{}", project_name, unix_seconds)
generate_image_tag(p, ts) == <<"local", p, ts>>
ImageId(d) == <<"id", d>>
\* format!("{DB_PREFIX}_{owner_login}")
DbName(o) == <<"hangardb", o>>

\* ------------------------------------------------------------- secrets layer
\* crypto_service::encrypt wraps the plaintext; decrypt unwraps it
encrypt_env_vars(e) == IF e = "none" THEN <<>> ELSE <<"enc", e>>
get_decrypted_env_vars(c) == IF c = <<>> THEN "none" ELSE c[2]

\* ------------------------------------------------------------------- store
NoProject ==
    [id |-> 0, name |-> "none", owner |-> "none", container_name |-> NoName,
     source |-> "none", source_url |-> NoName, deployed_image_tag |-> NoName,
     deployed_image_digest |-> "none", env_vars |-> <<>>,
     persistent_volume_path |-> "none", volume_name |-> NoName]

\* a lookup that never finds a row
name_check_skipped(name) == FALSE
check_project_name_exists(name) == \E p \in projects : p.name = name
check_owner_exists(owner) == \E p \in projects : p.owner = owner
check_database_exists_for_owner(owner) == \E d \in databases : d.owner_login = owner

\* SELECT ... WHERE id = $1 [AND owner = $2]
get_project_by_id_and_owner(id, owner, is_admin) ==
    IF is_admin
    THEN {p \in projects : p.id = id}
    ELSE {p \in projects : p.id = id /\ p.owner = owner}

\* SELECT ... LEFT JOIN project_participants ... WHERE p.id = $1 AND (p.owner = $2 OR pp.participant_id = $2)
get_project_by_id_for_user(id, user, is_admin) ==
    IF is_admin
    THEN {p \in projects : p.id = id}
    ELSE {p \in projects : p.id = id /\ (p.owner = user \/ BagIn(<<p.id, user>>, participants))}

\* schema of the store: (project_id, participant_id) is UNIQUE; a statement that
\* would store one of the pairs of the list a second time violates it
participants_unique_violation(id, list) ==
    \/ \E i \in DOMAIN list : BagIn(<<id, list[i]>>, participants)
    \/ \E i, j \in DOMAIN list : i # j /\ list[i] = list[j]

get_database_by_project_id(pid) == {d \in databases : d.project_id = pid}

\* UPDATE projects SET ... WHERE id = $1 : no row, no effect
UpdateProjectRow(id, f, v) ==
    {IF p.id = id THEN [p EXCEPT ![f] = v] ELSE p : p \in projects}

\* the update that leaves the stored container name as it was
container_name_kept(id, n) == projects
update_project_container_name(id, n) == UpdateProjectRow(id, "container_name", n)
update_project_source_url(id, u) == UpdateProjectRow(id, "source_url", u)
\* the update that leaves the stored variables as they were
env_vars_kept(id, e) == projects
update_project_env_vars(id, e) == UpdateProjectRow(id, "env_vars", encrypt_env_vars(e))
update_project_image_and_digest(id, tag, digest) ==
    {IF p.id = id
     THEN [p EXCEPT !.deployed_image_tag = tag, !.deployed_image_digest = digest]
     ELSE p : p \in projects}

\* ----------------------------------------------------------------- runtime
ContainerExists(n) == \E c \in containers : c.name = n
ContainerRunning(n) == \E c \in containers : c.name = n /\ c.status = "running"
WithoutContainer(cs, n) == {c \in cs : c.name # n}
WithStopped(cs, n) == {IF c.name = n THEN [c EXCEPT !.status = "stopped"] ELSE c : c \in cs}
VolumeInUse(cs, v) == \E c \in cs : c.mount = v

\* inspect_image(ref).id : the digest behind a tag or an id, "none" on 404
get_image_digest(ref) ==
    IF ref = NoName THEN "none"
    ELSE IF ref[1] = "id"
         THEN (IF \E i \in images : i.digest = ref[2] THEN ref[2] ELSE "none")
         ELSE (IF \E i \in images : i.tag = ref
               THEN (CHOOSE i \in images : i.tag = ref).digest
               ELSE "none")

ImagePresent(ref) == get_image_digest(ref) # "none"

\* the image store: tagged entries, and one untagged (dangling) entry for every
\* image that is present without a tag
ImageStore(tagged, present) ==
    tagged \cup {[tag |-> NoName, digest |-> d] : d \in present \ {i.digest : i \in tagged}}

\* pull or build: the tag now names digest d; the image it named before stays
WithImage(im, tag, d) ==
    ImageStore({i \in im : i.tag \notin {tag, NoName}} \cup {[tag |-> tag, digest |-> d]},
               {i.digest : i \in im} \cup {d})

ImageInUse(cs, d) == \E c \in cs : c.digest = d /\ c.status = "running"

\* the runtime's forced image removal.  By id: refused while a running container
\* uses the image.  By tag: the tag goes, and the image with its last tag unless
\* a running container uses it
RemoveImageOk(cs, im, ref) ==
    /\ ref # NoName
    /\ IF ref[1] = "id"
       THEN (\E i \in im : i.digest = ref[2]) /\ ~ImageInUse(cs, ref[2])
       ELSE \E i \in im : i.tag = ref
WithoutImage(cs, im, ref) ==
    IF ~RemoveImageOk(cs, im, ref) THEN im
    ELSE IF ref[1] = "id" THEN {i \in im : i.digest # ref[2]}
    ELSE LET d == (CHOOSE i \in im : i.tag = ref).digest
             tagged == {i \in im : i.tag \notin {ref, NoName}}
             present == {i.digest : i \in im} IN
         ImageStore(tagged, IF ImageInUse(cs, d) THEN present ELSE present \ {d})

\* ------------------------------------------------------------ fault model
\* an external call may fail while the budget lasts
Outcomes == IF faults < MaxFaults THEN {TRUE, FALSE} ELSE {TRUE}
Cost(ok) == IF ok THEN 0 ELSE 1
\* a best-effort call made after k earlier failures of the same step
OutcomesAfter(k) == IF faults + k < MaxFaults THEN {TRUE, FALSE} ELSE {TRUE}
Charge(ok) == faults' = faults + Cost(ok)
\* of k best-effort calls made in one step, at most one fails: 0 = none
FailingCall(k) == IF faults < MaxFaults THEN 0..k ELSE {0}

\* ---------------------------------------------------------------- requests
NoTx == [project |-> NoProject, database |-> FALSE, participants |-> <<>>]

IdleReq ==
    [pc |-> "idle", kind |-> "none", user |-> "none", is_admin |-> FALSE,
     \* DeployPayload / UpdateImagePayload / UpdateEnvPayload / ParticipantPayload
     project_name |-> "none", image_url |-> "none", github_repo_url |-> "none",
     participants |-> <<>>, env_vars |-> "none", persistent_volume_path |-> "none",
     create_database |-> FALSE,
     \* locals of deploy_project_handler
     image_tag |-> NoName, deployed_image_digest |-> "none",
     container_name |-> NoName, volume_name |-> NoName,
     \* locals of the blue-green handlers
     project_id |-> 0, project |-> NoProject, old_container_name |-> NoName,
     \* the tenant database of the row deprovision_linked_database found
     linked_database |-> NoName,
     new_container_name |-> NoName, new_image_tag |-> NoName,
     new_image_digest |-> "none", old_image_to_cleanup |-> NoName,
     old_was_running |-> FALSE,
     \* DeploymentOrchestrator.project_id (0 = None), poll counter, open transaction
     orch_project_id |-> 0, polls |-> 0, health |-> "none", tx |-> NoTx,
     \* outcome: the response, the call whose failure ended the request, the
     \* suspension point at which the future was dropped, the events emitted
     result |-> "none", error |-> "none", failed_at |-> "none",
     aborted_at |-> "none", events |-> <<>>]

InFlight(s) == req[s].pc \notin {"idle", "done"}
Quiescent == (\A s \in Slots : ~InFlight(s)) /\ tasks = {}

\* DeploymentOrchestrator::emit_stage : creation channel of the user while
\* project_id is None, the project's channel afterwards
Channel(r) ==
    IF r.orch_project_id = 0 THEN <<"creation", r.user>>
    ELSE <<"project", r.orch_project_id>>
emit_stage(r, stage) ==
    [r EXCEPT !.events = Append(@, [stage |-> stage, at |-> "", chan |-> Channel(r)])]
\* an Err arm that reports nothing
emit_nothing(r, operation_name) == r
\* with_stage / with_stages on Err : Failed{error, stage: operation_name}
emit_failed(r, operation_name) ==
    [r EXCEPT !.events = Append(@, [stage |-> "failed", at |-> operation_name, chan |-> Channel(r)])]
\* DeploymentOrchestrator::emit_completed : always the user's creation channel
emit_completed(r) ==
    [r EXCEPT !.events = Append(@, [stage |-> "completed", at |-> "", chan |-> <<"creation", r.user>>])]

Return(r, result, error) == [r EXCEPT !.pc = "done", !.result = result, !.error = error]
Goto(r, pc) == [r EXCEPT !.pc = pc]
FailedAt(r, at) == [r EXCEPT !.failed_at = at]
Set(s, r) == req' = [req EXCEPT ![s] = r]

Emitted(r, stage) == \E i \in 1..Len(r.events) : r.events[i].stage = stage
EmittedFailed(r, at) ==
    \E i \in 1..Len(r.events) : r.events[i].stage = "failed" /\ r.events[i].at = at

\* SystemTime::now() : time does not run backwards and may have advanced
Now == {t \in {clock, clock + 1} : t <= MaxClock}

\* ------------------------------------------------------------- sse manager
ClientIds == {1, 2}
ChannelIds == 1..MaxChannels

\* manager.rs: const BROADCAST_CAPACITY: usize = 1000, bounded here by a small
\* number that, like 1000, is no power of two
BROADCAST_CAPACITY == 3
next_power_of_two(n) == CHOOSE p \in {1, 2, 4, 8} : p >= n /\ 2 * n > p
\* tokio's broadcast::channel(capacity) retains capacity.next_power_of_two() values
ChannelLen(capacity) == next_power_of_two(capacity)

\* a sender nothing was sent on.  The values of a channel are told apart by
\* their position: sent is the position of the last one
NoSender == [sent |-> 0]
\* a connection slot no stream uses
IdleClient ==
    [pc |-> "idle", kind |-> "none", key |-> 0, ch |-> 0, start |-> 0, next |-> 0,
     got |-> <<>>, initial |-> "none", container_name |-> NoName]
NoEvent == [action |-> "none", name |-> [slashes |-> 0, rest |-> NoName]]

\* SseManager::new and the three workers main spawns
SseInit ==
    /\ project_channels = {}
    /\ creation_channels = {}
    /\ senders = [ch \in ChannelIds |-> NoSender]
    /\ clients = [c \in ClientIds |-> IdleClient]
    /\ listener = [pc |-> "select", event |-> NoEvent, emits |-> <<>>, reconnects |-> 0]
    /\ collector = [pc |-> "select", active |-> {}, todo |-> {}]
    /\ cleaner = [pc |-> "select", todo |-> {}, cur |-> {}]
    /\ shutdown = FALSE

Init ==
    /\ containers = {}
    /\ volumes = {}
    /\ images = {}
    /\ projects = {}
    /\ participants = EmptyBag
    /\ databases = {}
    /\ tenantDbs = {}
    /\ tenantUsers = {}
    /\ tasks = {}
    /\ req = [s \in Slots |-> IdleReq]
    /\ nextId = 1
    /\ clock = 1
    /\ faults = 0
    /\ nreq = 0
    /\ SseInit

Runtime == <<containers, volumes, images>>
Store == <<projects, participants, databases>>
Tenant == <<tenantDbs, tenantUsers>>

\* ------------------------------------------------ runtime calls with outcomes
Op(op, arg) == [op |-> op, arg |-> arg]

\* docker_service::remove_container : stop (errors swallowed), then remove;
\* 404 is success.  ok = FALSE : the remove call fails after the stop
remove_container(cs, n, ok) == IF ok THEN WithoutContainer(cs, n) ELSE WithStopped(cs, n)

\* docker_service::remove_volume_by_name : 404 is success; the runtime refuses
\* (409) to remove a volume that a container still mounts
RemoveVolumeOk(cs, vs, v, ok) == v \notin vs \/ (ok /\ ~VolumeInUse(cs, v))
remove_volume_by_name(cs, vs, v, ok) ==
    IF ok /\ ~VolumeInUse(cs, v) THEN vs \ {v} ELSE vs

\* the status the runtime answers DELETE /containers/{n} and DELETE /volumes/{v}
\* with; ok = FALSE : the call fails for a reason of its own
remove_container_reply(cs, n, ok) ==
    IF ~ok THEN 500 ELSE IF \E c \in cs : c.name = n THEN 204 ELSE 404
remove_volume_reply(cs, vs, v, ok) ==
    IF ~ok THEN 500 ELSE IF v \notin vs THEN 404 ELSE IF VolumeInUse(cs, v) THEN 409 ELSE 204
\* a removal that reports every answer but success as an error
not_found_is_error(status_code) == IF status_code = 204 THEN "none" ELSE "INTERNAL"
\* docker_service::remove_container, remove_volume_by_name : the match on the
\* answer of the remove call, as the error returned
remove_container_returns(status_code) ==
    IF status_code \in {204, 404} THEN "none" ELSE "INTERNAL"
remove_volume_by_name_returns(status_code) ==
    IF status_code \in {204, 404} THEN "none" ELSE "INTERNAL"

\* docker_service::remove_image
remove_image(cs, im, ref, ok) == IF ok THEN WithoutImage(cs, im, ref) ELSE im

\* docker_service::create_project_container.  The create call is refused by the
\* runtime when the name is taken (409) or the image is absent (404).
CpcRefused(name, image) == ContainerExists(name) \/ ~ImagePresent(image)
CpcOk(o) == o \in {"running", "exited"}
CpcOutcomes(name, image, path) ==
    IF CpcRefused(name, image) THEN {"create_failed"}
    ELSE {"running", "exited"}
         \cup (IF faults < MaxFaults
               THEN {"create_failed", "start_failed"}
                    \cup (IF path # "none" THEN {"volume_failed"} ELSE {})
               ELSE {})
CpcCharge(o, name, image) ==
    faults' = IF CpcOk(o) \/ CpcRefused(name, image) THEN faults ELSE faults + 1
\* volume_name_created
CpcVolume(o, project, path) ==
    IF path # "none" /\ o # "volume_failed" THEN VolumeName(project) ELSE NoName
create_project_container(o, name, project, image, env, path) ==
    LET vol == CpcVolume(o, project, path) IN
    /\ volumes' = IF vol # NoName THEN volumes \cup {vol} ELSE volumes
    /\ containers' =
         IF o \in {"running", "exited", "start_failed"}
         THEN containers \cup
              {[name |-> name, project |-> project, image |-> image,
                digest |-> get_image_digest(image), env |-> env, mount |-> vol,
                status |-> IF o = "start_failed" THEN "created" ELSE o]}
         ELSE containers
    /\ tasks' =
         CASE o = "create_failed" /\ vol # NoName ->
                tasks \cup {<<Op("remove_volume", vol)>>}
           [] o = "start_failed" ->
                tasks \cup {<<Op("remove_container_raw", name)>>
                            \o (IF vol # NoName THEN <<Op("remove_volume", vol)>> ELSE <<>>)}
           [] OTHER -> tasks

\* --------------------------------------------------- deploy_project_handler
DeploySources ==
    {[image_url |-> "img1", github_repo_url |-> "none"],
     [image_url |-> "none", github_repo_url |-> "repo"],
     [image_url |-> "none", github_repo_url |-> "none"],
     [image_url |-> "img1", github_repo_url |-> "repo"]}
\* DeployPayload.participants : Vec<String>
ParticipantLists == {<<>>} \cup {<<u>> : u \in Users}

\* the request bodies submitted to POST /projects
DeployPayloads ==
    [project_name : {"p1"}, source : DeploySources,
     participants : ParticipantLists, env_vars : {"e1"},
     persistent_volume_path : {"none", "/data"}, create_database : BOOLEAN]

\* deploy_project_handler up to the end of the "Input validation" stage, for a
\* body that passes validate_deploy_payload
SubmitDeploy(s, users, payloads, limit) ==
    /\ ~InFlight(s)
    /\ nreq < limit
    /\ nreq' = nreq + 1
    /\ \E u \in users, b \in payloads :
         Set(s, emit_stage(emit_stage(
                  [IdleReq EXCEPT !.pc = "preconditions", !.kind = "deploy",
                                  !.user = u, !.is_admin = (u \in Admins),
                                  !.project_name = b.project_name,
                                  !.image_url = b.source.image_url,
                                  !.github_repo_url = b.source.github_repo_url,
                                  !.participants = b.participants,
                                  !.env_vars = b.env_vars,
                                  !.persistent_volume_path = b.persistent_volume_path,
                                  !.create_database = b.create_database],
                  "started"), "validating_input"))
    /\ UNCHANGED <<Runtime, Store, Tenant, tasks, nextId, clock, faults, Sse>>

deploy_project_handler(s) == SubmitDeploy(s, Users, DeployPayloads, MaxRequests)

\* the Vec a HashSet is collected into holds each of its values once, in an
\* order that no later statement depends on: the order of UserOrder here
UserOrder == <<"alice", "bob">>
collect(set) == SelectSeq(UserOrder, LAMBDA u : u \in set)
accepts_owner(list, user_login) ==
    [ok |-> TRUE, participants |-> collect({list[i] : i \in DOMAIN list})]
prepare_participants(list, user_login) ==
    LET participants_set == {list[i] : i \in DOMAIN list} IN
    IF user_login \in participants_set
    THEN [ok |-> FALSE, participants |-> <<>>]
    ELSE [ok |-> TRUE, participants |-> collect(participants_set)]

\* with_stage(ValidatingInput, "Preconditions check", ...), prepare_participants,
\* and the source dispatch of prepare_deployment_source_with_events
check_deployment_preconditions(s) ==
    LET r == emit_stage(req[s], "validating_input")
        prepared == prepare_participants(r.participants, r.user)
        q == [r EXCEPT !.participants = prepared.participants] IN
    /\ req[s].pc = "preconditions"
    /\ req[s].kind = "deploy"
    /\ Set(s,
         IF check_owner_exists(r.user)
         THEN Return(emit_failed(r, "Preconditions check"), "err", "OWNER_ALREADY_EXISTS")
         ELSE IF check_project_name_exists(r.project_name)
         THEN Return(emit_failed(r, "Preconditions check"), "err", "PROJECT_NAME_TAKEN")
         ELSE IF r.create_database /\ check_database_exists_for_owner(r.user)
         THEN Return(emit_failed(r, "Preconditions check"), "err", "DATABASE_ALREADY_EXISTS")
         ELSE IF ~prepared.ok
         THEN Return(r, "err", "OWNER_CANNOT_BE_PARTICIPANT")
         ELSE IF q.image_url # "none" THEN Goto(q, "pull")
         ELSE IF q.github_repo_url # "none" THEN Goto(q, "clone")
         ELSE Return(q, "err", "BAD_REQUEST"))
    /\ UNCHANGED <<Runtime, Store, Tenant, tasks, nextId, clock, faults, nreq, Sse>>

\* the image url is also the local tag of a pulled image
pull_image_with_error_handling(s) ==
    LET r == [emit_stage(req[s], "pulling_image") EXCEPT !.image_tag = Url(req[s].image_url)] IN
    /\ req[s].pc = "pull"
    /\ \E ok \in Outcomes, d \in Digests :
         /\ Charge(ok)
         /\ images' = IF ok THEN WithImage(images, r.image_tag, d) ELSE images
         /\ Set(s, IF ok THEN Goto(emit_stage(r, "image_pulled"), "scan")
                   ELSE Return(emit_failed(r, "Image pull"), "err", "IMAGE_PULL_FAILED"))
    /\ UNCHANGED <<containers, volumes, Store, Tenant, tasks, nextId, clock, nreq, Sse>>

\* scan_image_with_grype, and on a finding the removal of the scanned image
scan_image_with_rollback(s) ==
    LET r == emit_stage(req[s], "scanning_image") IN
    /\ req[s].pc = "scan"
    /\ \E ok \in Outcomes, rm \in OutcomesAfter(1) :
         /\ (ok => rm)
         /\ faults' = faults + Cost(ok) + Cost(rm)
         /\ images' = IF ok THEN images ELSE remove_image(containers, images, r.image_tag, rm)
         /\ Set(s, IF ok
                   THEN Goto(emit_stage(r, "image_scanned"),
                             IF r.kind = "deploy" THEN "digest" ELSE "bg_digest")
                   ELSE Return(emit_failed(r, "Image scan"), "err", "IMAGE_SCAN_FAILED"))
    /\ UNCHANGED <<containers, volumes, Store, Tenant, tasks, nextId, clock, nreq, Sse>>

\* build_image_from_github_source_with_events, up to generate_image_tag
clone_repository(s) ==
    LET r == emit_stage(req[s], "cloning_repository") IN
    /\ req[s].pc = "clone"
    /\ \E ok \in Outcomes, now \in Now :
         /\ Charge(ok)
         /\ clock' = IF ok THEN now ELSE clock
         /\ Set(s, IF ok
                   THEN [Goto(emit_stage(r, "repository_cloned"), "build")
                           EXCEPT !.image_tag = generate_image_tag(r.project_name, now)]
                   ELSE Return(emit_failed(r, "Repository clone"), "err", "CLONE_FAILED"))
    /\ UNCHANGED <<Runtime, Store, Tenant, tasks, nextId, nreq, Sse>>

build_image_from_tar(s) ==
    LET r == emit_stage(req[s], "building_image") IN
    /\ req[s].pc = "build"
    /\ \E ok \in Outcomes, d \in Digests :
         /\ Charge(ok)
         /\ images' = IF ok THEN WithImage(images, r.image_tag, d) ELSE images
         /\ Set(s, IF ok THEN Goto(emit_stage(r, "image_built"), "scan")
                   ELSE Return(emit_failed(r, "Image build"), "err", "BAD_REQUEST"))
    /\ UNCHANGED <<containers, volumes, Store, Tenant, tasks, nextId, clock, nreq, Sse>>

\* with_stage(GettingImageDigest, ..., get_image_digest(image_tag)) of the deploy
deploy_get_image_digest(s) ==
    LET r == emit_stage(req[s], "getting_image_digest") IN
    /\ req[s].pc = "digest"
    /\ \E ok \in Outcomes, rm \in OutcomesAfter(1) :
         LET found == ok /\ ImagePresent(r.image_tag) IN
         /\ (found => rm)
         /\ (ok => rm)
         /\ faults' = faults + Cost(ok) + Cost(rm)
         /\ images' = IF found THEN images ELSE remove_image(containers, images, r.image_tag, rm)
         /\ Set(s, IF found
                   THEN [Goto(r, "create")
                           EXCEPT !.deployed_image_digest = get_image_digest(r.image_tag),
                                  !.container_name = ContainerName(r.project_name, 0)]
                   ELSE Return(emit_failed(r, "Image digest retrieval"), "err", "INTERNAL"))
    /\ UNCHANGED <<containers, volumes, Store, Tenant, tasks, nextId, clock, nreq, Sse>>

create_container_with_rollback(s) ==
    LET r == emit_stage(req[s], "creating_container")
        image == ImageId(r.deployed_image_digest) IN
    /\ req[s].pc = "create"
    /\ \E o \in CpcOutcomes(r.container_name, image, r.persistent_volume_path),
          rm \in OutcomesAfter(1) :
         /\ (CpcOk(o) => rm)
         /\ create_project_container(o, r.container_name, r.project_name, image,
                                     r.env_vars, r.persistent_volume_path)
         /\ faults' = faults + Cost(rm)
                      + Cost(CpcOk(o) \/ CpcRefused(r.container_name, image))
         /\ images' = IF CpcOk(o) THEN images
                      ELSE remove_image(containers', images, r.image_tag, rm)
         /\ Set(s, IF CpcOk(o)
                   THEN [Goto(emit_stage(r, "container_created"), "health")
                           EXCEPT !.volume_name =
                                    CpcVolume(o, r.project_name, r.persistent_volume_path)]
                   ELSE Return(FailedAt(emit_failed(r, "Container creation"), "create"),
                               "err", "CONTAINER_CREATION_FAILED"))
    /\ UNCHANGED <<Store, Tenant, nextId, clock, nreq, Sse>>

\* update_env_vars_handler has no orchestrator: it emits no stage
stage(r, st) == IF r.kind = "update_env" THEN r ELSE emit_stage(r, st)
stage_failed(r, at) == IF r.kind = "update_env" THEN r ELSE emit_failed(r, at)

\* the container whose health the request waits for
HealthTarget(r) == IF r.kind = "deploy" THEN r.container_name ELSE r.new_container_name

\* is_container_healthy : inspect(name).state.running, any error reads as false
is_container_healthy(n) == ContainerRunning(n)

\* what the blue-green handlers spawn when the new container has to go
NewContainerCleanup(r) ==
    IF r.kind = "update_env"
    THEN <<Op("remove_container", r.new_container_name)>>
    ELSE <<Op("remove_container", r.new_container_name), Op("remove_image", r.new_image_tag)>>

\* one poll of wait_for_container_health(state, name, 10), with the stage events
\* of the with_stages around it and the caller's handling of its failure.  The
\* loop counter is gone when the function returns; health keeps its result
wait_for_container_health(s) ==
    LET r0 == req[s]
        r == IF r0.polls = 0 THEN stage(r0, "waiting_health_check") ELSE r0
        after == CASE r.kind = "deploy" -> "persist"
                   [] r.kind = "update_env" -> "env_meta"
                   [] OTHER -> "meta" IN
    /\ r0.pc = "health"
    /\ IF is_container_healthy(HealthTarget(r))
       THEN /\ Set(s, [Goto(stage(r, "health_check_passed"), after)
                         EXCEPT !.health = "passed", !.polls = 0])
            /\ tasks' = tasks
       ELSE IF r.polls + 1 < HealthMaxAttempts
       THEN /\ Set(s, [r EXCEPT !.polls = @ + 1])
            /\ tasks' = tasks
       ELSE IF r.kind = "deploy"
       THEN /\ Set(s, [Goto(stage_failed(r, "Health check"), "health_rollback")
                         EXCEPT !.health = "failed", !.polls = 0])
            /\ tasks' = tasks
       ELSE /\ Set(s, [Return(stage_failed(r, "Health check"), "err", "INTERNAL")
                         EXCEPT !.health = "failed", !.polls = 0])
            /\ tasks' = tasks \cup {NewContainerCleanup(r)}
    /\ UNCHANGED <<Runtime, Store, Tenant, nextId, clock, faults, nreq, Sse>>

\* restart policy unless-stopped: a container that exited on its own comes back
restart_policy(n) ==
    /\ \E c \in containers : c.name = n /\ c.status = "exited"
    /\ containers' = {IF c.name = n THEN [c EXCEPT !.status = "running"] ELSE c : c \in containers}
    /\ UNCHANGED <<volumes, images, Store, Tenant, tasks, req, nextId, clock, faults, nreq, Sse>>

\* deploy_project_handler, the body of `if let Err(e) = ...health...` : the
\* container, the volume (its error is propagated with ?) and the image are
\* removed; the handler then goes on to persist_project_with_rollback_and_events
deploy_health_check_rollback(s) ==
    LET r == req[s] IN
    /\ r.pc = "health_rollback"
    /\ \E k \in FailingCall(3) :
         LET cs == remove_container(containers, r.container_name, k # 1)
             hasVol == r.volume_name # NoName
             volOk == ~hasVol \/ RemoveVolumeOk(cs, volumes, r.volume_name, k # 2) IN
         /\ (k = 2 => hasVol)
         /\ (k = 3 => volOk)
         /\ faults' = faults + Cost(k = 0)
         /\ containers' = cs
         /\ volumes' = IF hasVol THEN remove_volume_by_name(cs, volumes, r.volume_name, k # 2)
                       ELSE volumes
         /\ images' = IF volOk
                      THEN remove_image(cs, images, ImageId(r.deployed_image_digest), k # 3)
                      ELSE images
         /\ Set(s, IF volOk THEN Goto(r, "persist") ELSE Return(r, "err", "INTERNAL"))
    /\ UNCHANGED <<Store, Tenant, tasks, nextId, clock, nreq, Sse>>

\* ---------------------------------- persist_project_with_rollback_and_events
\* the transaction is open from begin() until tx is committed or, on the Err
\* arm, dropped when the function returns after the removals
InTx(r) ==
    r.pc \in {"provision", "insert_database", "deprovision", "participants", "commit",
              "persist_rollback"}

\* schema of the store: projects.name is UNIQUE (owner only carries a plain index)
projects_unique_violation(row) == \E p \in projects : p.name = row.name
\* schema of the store: databases.owner_login and databases.project_id are UNIQUE
databases_unique_violation(owner, pid) ==
    \E d \in databases : d.owner_login = owner \/ d.project_id = pid

NewProjectRow(r, id) ==
    [id |-> id, name |-> r.project_name, owner |-> r.user,
     container_name |-> r.container_name,
     source |-> IF r.image_url # "none" THEN "direct" ELSE "github",
     source_url |-> IF r.image_url # "none" THEN Url(r.image_url)
                    ELSE <<"repo", r.github_repo_url>>,
     deployed_image_tag |-> r.image_tag,
     deployed_image_digest |-> r.deployed_image_digest,
     env_vars |-> encrypt_env_vars(r.env_vars),
     persistent_volume_path |-> r.persistent_volume_path,
     volume_name |-> r.volume_name]

\* db_pool.begin() and project_service::create_project inside the transaction.
\* An insert of a name that another open transaction has inserted waits for it.
create_project_in_transaction(s) ==
    LET r == req[s]
        row == NewProjectRow(r, nextId) IN
    /\ r.pc = "persist"
    /\ \A t \in Slots \ {s} : ~(InTx(req[t]) /\ req[t].tx.project.name = r.project_name)
    /\ \E o \in {"ok"} \cup (IF faults < MaxFaults THEN {"begin_failed", "insert_failed"} ELSE {}) :
         /\ faults' = faults + Cost(o = "ok")
         /\ IF o = "begin_failed"
            THEN /\ Set(s, Return(FailedAt(r, "begin"), "err", "INTERNAL"))
                 /\ nextId' = nextId
            ELSE IF o = "insert_failed"
            THEN /\ Set(s, [Goto(FailedAt(r, "insert_project"), "persist_rollback")
                              EXCEPT !.error = "INTERNAL"])
                 /\ nextId' = nextId
            ELSE IF projects_unique_violation(row)
            THEN /\ Set(s, [Goto(FailedAt(r, "insert_project"), "persist_rollback")
                              EXCEPT !.error = "PROJECT_NAME_TAKEN"])
                 /\ nextId' = nextId + 1
            ELSE /\ Set(s, [Goto(r, IF r.create_database THEN "provision" ELSE "participants")
                              EXCEPT !.tx.project = row, !.orch_project_id = row.id])
                 /\ nextId' = nextId + 1
    /\ UNCHANGED <<Runtime, Store, Tenant, tasks, clock, nreq, Sse>>

\* CREATE DATABASE; CREATE USER; GRANT; FLUSH PRIVILEGES.  CREATE fails on an
\* existing database or user; o names the statement that fails
ProvisioningOutcomes(db, user) ==
    IF db \in tenantDbs THEN {"fail_db"}
    ELSE IF user \in tenantUsers THEN {"fail_user"}
    ELSE {"ok"} \cup (IF faults < MaxFaults THEN {"fail_db", "fail_user", "fail_grant"} ELSE {})
ProvisioningRefused(db, user) == db \in tenantDbs \/ user \in tenantUsers
execute_mariadb_provisioning(o, db, user) ==
    /\ tenantDbs' = IF o = "fail_db" THEN tenantDbs ELSE tenantDbs \cup {db}
    /\ tenantUsers' = IF o \in {"fail_db", "fail_user"} THEN tenantUsers
                      ELSE tenantUsers \cup {user}

\* DROP DATABASE IF EXISTS; DROP USER IF EXISTS.  o names the statement that fails
DeprovisioningOutcomes(k) ==
    {"ok"} \cup (IF faults + k < MaxFaults THEN {"fail_db", "fail_user"} ELSE {})
\* a deprovisioning that drops the database and leaves its user
deprovisioning_keeps_user(o, db, user) ==
    /\ tenantDbs' = IF o = "fail_db" THEN tenantDbs ELSE tenantDbs \ {db}
    /\ tenantUsers' = tenantUsers
execute_mariadb_deprovisioning(o, db, user) ==
    /\ tenantDbs' = IF o = "fail_db" THEN tenantDbs ELSE tenantDbs \ {db}
    /\ tenantUsers' = IF o = "ok" THEN tenantUsers \ {user} ELSE tenantUsers

\* provision_and_link_database_tx, first half: provisioning on the tenant server
provision_database_in_transaction(s) ==
    LET r == emit_stage(req[s], "provisioning_database")
        db == DbName(r.user) IN
    /\ req[s].pc = "provision"
    /\ \E o \in ProvisioningOutcomes(db, db) :
         /\ execute_mariadb_provisioning(o, db, db)
         /\ faults' = faults + Cost(o = "ok" \/ ProvisioningRefused(db, db))
         /\ Set(s, IF o = "ok" THEN Goto(r, "insert_database")
                   ELSE [Goto(FailedAt(r, "provision"), "deprovision")
                           EXCEPT !.error = "PROVISIONING_FAILED"])
    /\ UNCHANGED <<Runtime, Store, tasks, nextId, clock, nreq, Sse>>

\* provision_and_link_database_tx, second half: INSERT INTO databases in the transaction
insert_database_in_transaction(s) ==
    LET r == req[s] IN
    /\ r.pc = "insert_database"
    /\ \E ok \in Outcomes :
         /\ Charge(ok)
         /\ Set(s, IF ok /\ ~databases_unique_violation(r.user, r.tx.project.id)
                   THEN [Goto(emit_stage(r, "database_provisioned"), "participants")
                           EXCEPT !.tx.database = TRUE]
                   ELSE [Goto(FailedAt(r, "insert_database"), "deprovision")
                           EXCEPT !.error = "PROJECT_CREATION_FAILED_WITH_DATABASE_ERROR"])
    /\ UNCHANGED <<Runtime, Store, Tenant, tasks, nextId, clock, nreq, Sse>>

\* provision_and_link_database_tx, both error paths: best-effort deprovisioning,
\* then with_stages emits Failed{stage: "Database provisioning"}
rollback_mariadb_provisioning(s) ==
    LET r == req[s]
        db == DbName(r.user) IN
    /\ r.pc = "deprovision"
    /\ \E o \in DeprovisioningOutcomes(0) :
         /\ execute_mariadb_deprovisioning(o, db, db)
         /\ faults' = faults + Cost(o = "ok")
         /\ Set(s, Goto(emit_failed(r, "Database provisioning"), "persist_rollback"))
    /\ UNCHANGED <<Runtime, Store, tasks, nextId, clock, nreq, Sse>>

\* project_service::add_project_participants : no statement for an empty list,
\* one INSERT of all the pairs otherwise
add_participants_in_transaction(s) ==
    LET r == req[s]
        refused == participants_unique_violation(r.tx.project.id, r.participants) IN
    /\ r.pc = "participants"
    /\ \E done \in Outcomes :
         LET ok == done /\ ~refused IN
         /\ (r.participants = <<>> \/ refused => done)
         /\ Charge(done)
         /\ Set(s, IF ok THEN [Goto(r, "commit") EXCEPT !.tx.participants = r.participants]
                   ELSE [Goto(FailedAt(r, "participants"), "persist_rollback")
                           EXCEPT !.error = "INTERNAL"])
    /\ UNCHANGED <<Runtime, Store, Tenant, tasks, nextId, clock, nreq, Sse>>

\* persist_project_with_rollback_and_events, Err arm: container, volume and
\* image are removed best-effort, then the function returns and drops the
\* transaction
rollback_docker_resources(s) ==
    LET r == req[s] IN
    /\ r.pc = "persist_rollback"
    /\ \E k \in FailingCall(3) :
         LET cs == remove_container(containers, r.container_name, k # 1) IN
         /\ (k = 2 => r.volume_name # NoName)
         /\ faults' = faults + Cost(k = 0)
         /\ containers' = cs
         /\ volumes' = IF r.volume_name # NoName
                       THEN remove_volume_by_name(cs, volumes, r.volume_name, k # 2)
                       ELSE volumes
         /\ images' = remove_image(cs, images, r.image_tag, k # 3)
         /\ Set(s, [Return(r, "err", r.error) EXCEPT !.tx = NoTx])
    /\ UNCHANGED <<Store, Tenant, tasks, nextId, clock, nreq, Sse>>

DatabaseRow(r) ==
    [owner_login |-> r.user, database_name |-> DbName(r.user),
     username |-> DbName(r.user), project_id |-> r.tx.project.id]

\* the rows an INSERT of the pairs of a list stores, one for each element
InsertedPairs(id, list) ==
    [x \in {<<id, list[i]>> : i \in DOMAIN list} |->
       Cardinality({i \in DOMAIN list : list[i] = x[2]})]

\* persist_project_with_rollback_and_events, Ok arm: tx.commit(), whose error is
\* returned as it is; then deploy_project_handler emits Completed
commit_transaction(s) ==
    LET r == req[s] IN
    /\ r.pc = "commit"
    /\ \E ok \in Outcomes :
         /\ Charge(ok)
         /\ projects' = IF ok THEN projects \cup {r.tx.project} ELSE projects
         /\ databases' = IF ok /\ r.tx.database THEN databases \cup {DatabaseRow(r)}
                         ELSE databases
         /\ participants' = IF ok
                            THEN participants (+) InsertedPairs(r.tx.project.id, r.tx.participants)
                            ELSE participants
         /\ Set(s, IF ok THEN [Return(emit_completed(r), "ok", "none") EXCEPT !.tx = NoTx]
                   ELSE [Return(FailedAt(r, "commit"), "err", "INTERNAL") EXCEPT !.tx = NoTx])
    /\ UNCHANGED <<Runtime, Tenant, tasks, nextId, clock, nreq, Sse>>

\* ----------------------------------------------------- blue-green handlers
ProjectIds == 1..MaxRequests
BlueGreenKinds == {"update_image", "rebuild", "update_env"}
EnvPayloads == {"e1", "e2"}

\* get_project_for_owner / get_project_for_user : Err(NotFound) on no row
get_project_for_owner(id, user, is_admin) == get_project_by_id_and_owner(id, user, is_admin)
get_project_for_user(id, user, is_admin) == get_project_by_id_for_user(id, user, is_admin)

\* a request on a project, by a caller whose claims the middleware has built
Request(kind, u, id) ==
    [IdleReq EXCEPT !.kind = kind, !.user = u, !.is_admin = (u \in Admins), !.project_id = id]

\* the locals a blue-green handler holds once the project row is read
WithProject(r, p) ==
    [r EXCEPT !.project = p, !.project_name = p.name, !.orch_project_id = p.id,
              !.old_container_name = p.container_name,
              !.old_was_running = ContainerRunning(p.container_name),
              !.persistent_volume_path = p.persistent_volume_path]

\* update_project_image_handler, up to the Started event
SubmitImageUpdate(s, users, limit) ==
    /\ ~InFlight(s)
    /\ nreq < limit
    /\ nreq' = nreq + 1
    /\ \E u \in users, id \in ProjectIds, url \in ImageUrls :
         LET r == [Request("update_image", u, id) EXCEPT !.image_url = url]
             found == get_project_for_user(id, u, u \in Admins) IN
         Set(s, IF found = {} THEN Return(r, "err", "NOT_FOUND")
                ELSE LET p == CHOOSE p \in found : TRUE IN
                     IF p.source # "direct" THEN Return(r, "err", "BAD_REQUEST")
                     ELSE Goto(emit_stage(WithProject(r, p), "started"), "pull"))
    /\ UNCHANGED <<Runtime, Store, Tenant, tasks, nextId, clock, faults, Sse>>

update_project_image_handler(s) == SubmitImageUpdate(s, Users, MaxRequests)

\* rebuild_project_handler, up to the Started event
SubmitRebuild(s, users, limit) ==
    /\ ~InFlight(s)
    /\ nreq < limit
    /\ nreq' = nreq + 1
    /\ \E u \in users, id \in ProjectIds :
         LET r == Request("rebuild", u, id)
             found == get_project_for_user(id, u, u \in Admins) IN
         Set(s, IF found = {} THEN Return(r, "err", "NOT_FOUND")
                ELSE LET p == CHOOSE p \in found : TRUE IN
                     IF p.source # "github" THEN Return(r, "err", "BAD_REQUEST")
                     ELSE Goto(emit_stage(WithProject(r, p), "started"), "clone"))
    /\ UNCHANGED <<Runtime, Store, Tenant, tasks, nextId, clock, faults, Sse>>

rebuild_project_handler(s) == SubmitRebuild(s, Users, MaxRequests)

\* prepare_blue_green_deployment_with_events after the pull and scan, and the
\* digest comparison of the two handlers
\* a comparison that never matches
digest_always_new(r, digest) == FALSE
digest_unchanged(r, digest) == r.project.deployed_image_digest = digest
prepare_blue_green_deployment(s) ==
    LET r == emit_stage(req[s], "getting_image_digest") IN
    /\ req[s].pc = "bg_digest"
    /\ \E ok \in Outcomes, now \in Now : \E rm \in OutcomesAfter(Cost(ok)) :
         LET found == ok /\ ImagePresent(r.image_tag)
             digest == get_image_digest(r.image_tag)
             same == found /\ digest_unchanged(r, digest)
             removes == ~found \/ (same /\ r.kind = "rebuild") IN
         /\ (~removes => rm)
         /\ (~found => now = clock)
         /\ faults' = faults + Cost(ok) + Cost(rm)
         /\ clock' = now
         /\ images' = IF removes THEN remove_image(containers, images, r.image_tag, rm)
                      ELSE images
         /\ Set(s, IF ~found
                   THEN Return(emit_failed(r, "Image digest retrieval"), "err", "INTERNAL")
                   ELSE LET d == [r EXCEPT
                                   !.new_container_name = ContainerName(r.project.name, now),
                                   !.new_image_tag = r.image_tag,
                                   !.new_image_digest = digest,
                                   !.env_vars = get_decrypted_env_vars(r.project.env_vars),
                                   !.old_image_to_cleanup =
                                       IF r.kind = "update_image" THEN r.image_tag
                                       ELSE r.project.deployed_image_tag] IN
                        IF same THEN Return(d, "no_change", "none")
                        ELSE Goto(d, "bg_create"))
    /\ UNCHANGED <<containers, volumes, Store, Tenant, tasks, nextId, nreq, Sse>>

\* execute_blue_green_deployment_with_events, with_stages around
\* create_new_container_for_deployment
create_new_container_for_deployment(s) ==
    LET r == emit_stage(req[s], "creating_container")
        image == ImageId(r.new_image_digest) IN
    /\ req[s].pc = "bg_create"
    /\ \E o \in CpcOutcomes(r.new_container_name, image, r.persistent_volume_path),
          rm \in OutcomesAfter(1) :
         /\ (CpcOk(o) => rm)
         /\ create_project_container(o, r.new_container_name, r.project.name, image,
                                     r.env_vars, r.persistent_volume_path)
         /\ faults' = faults + Cost(rm)
                      + Cost(CpcOk(o) \/ CpcRefused(r.new_container_name, image))
         /\ images' = IF CpcOk(o) THEN images
                      ELSE remove_image(containers', images, r.new_image_tag, rm)
         /\ Set(s, IF CpcOk(o) THEN Goto(emit_stage(r, "container_created"), "health")
                   ELSE Return(FailedAt(emit_failed(r, "New container creation"), "create"),
                               "err", "CONTAINER_CREATION_FAILED"))
    /\ UNCHANGED <<Store, Tenant, nextId, clock, nreq, Sse>>

\* update_env_vars_handler : the variables are validated, the row is read, and
\* create_blue_green_deployment_for_env_update names the new container
SubmitEnvUpdate(s, users, limit) ==
    /\ ~InFlight(s)
    /\ nreq < limit
    /\ nreq' = nreq + 1
    /\ \E u \in users, id \in ProjectIds, env \in EnvPayloads, now \in Now :
         LET r == [Request("update_env", u, id) EXCEPT !.env_vars = env]
             found == get_project_for_user(id, u, u \in Admins) IN
         /\ (found = {} => now = clock)
         /\ clock' = now
         /\ Set(s, IF found = {} THEN Return(r, "err", "NOT_FOUND")
                   ELSE LET p == CHOOSE p \in found : TRUE IN
                        [Goto(WithProject(r, p), "env_create")
                           EXCEPT !.new_container_name = ContainerName(p.name, now),
                                  !.new_image_tag = p.deployed_image_tag,
                                  !.new_image_digest = p.deployed_image_digest])
    /\ UNCHANGED <<Runtime, Store, Tenant, tasks, nextId, faults, Sse>>

update_env_vars_handler(s) == SubmitEnvUpdate(s, Users, MaxRequests)

\* execute_env_vars_blue_green_deployment : the new container, from the image
\* the row's tag names
create_container_for_env_update(s) ==
    LET r == req[s]
        image == r.project.deployed_image_tag IN
    /\ r.pc = "env_create"
    /\ \E o \in CpcOutcomes(r.new_container_name, image, r.persistent_volume_path) :
         /\ create_project_container(o, r.new_container_name, r.project.name, image,
                                     r.env_vars, r.persistent_volume_path)
         /\ CpcCharge(o, r.new_container_name, image)
         /\ Set(s, IF CpcOk(o) THEN Goto(r, "health")
                   ELSE Return(FailedAt(r, "create"), "err", "CONTAINER_CREATION_FAILED"))
    /\ UNCHANGED <<images, Store, Tenant, nextId, clock, nreq, Sse>>

\* one statement of the metadata swap: on its failure the image and rebuild
\* handlers spawn the removal of the new container and image, the env handler
\* spawns nothing
MetadataWrite(s, at, new_projects, next) ==
    LET r == req[s] IN
    /\ r.pc = at
    /\ \E ok \in Outcomes :
         /\ Charge(ok)
         /\ projects' = IF ok THEN new_projects ELSE projects
         /\ tasks' = IF ok \/ r.kind = "update_env" THEN tasks
                     ELSE tasks \cup {NewContainerCleanup(r)}
         /\ Set(s, IF ok THEN Goto(r, next) ELSE Return(FailedAt(r, at), "err", "INTERNAL"))
    /\ UNCHANGED <<Runtime, participants, databases, Tenant, nextId, clock, nreq, Sse>>

\* update_project_metadata : three statements, each committed on its own
update_metadata_container_name(s) ==
    MetadataWrite(s, "meta",
                  update_project_container_name(req[s].project.id, req[s].new_container_name),
                  "meta_image")
update_metadata_image_and_digest(s) ==
    MetadataWrite(s, "meta_image",
                  update_project_image_and_digest(req[s].project.id, req[s].new_image_tag,
                                                  req[s].new_image_digest),
                  IF req[s].project.source = "direct" THEN "meta_source" ELSE "cleanup")
update_metadata_source_url(s) ==
    MetadataWrite(s, "meta_source",
                  update_project_source_url(req[s].project.id, req[s].new_image_tag),
                  "cleanup")

\* execute_env_vars_blue_green_deployment : two statements, each committed on its own
update_env_container_name(s) ==
    MetadataWrite(s, "env_meta",
                  update_project_container_name(req[s].project.id, req[s].new_container_name),
                  "env_meta_vars")
update_env_env_vars(s) ==
    MetadataWrite(s, "env_meta_vars",
                  update_project_env_vars(req[s].project.id, req[s].env_vars),
                  "cleanup")

\* cleanup_old_deployment and the handler's Completed event; for the env update
\* the removal of the old container that ends execute_env_vars_blue_green_deployment
cleanup_old_deployment(s) ==
    LET r == stage(req[s], "cleaning_up") IN
    /\ req[s].pc = "cleanup"
    /\ \E ok \in Outcomes :
         /\ Charge(ok)
         /\ containers' = remove_container(containers, r.old_container_name, ok)
         /\ tasks' = IF r.kind = "update_env" THEN tasks
                     ELSE tasks \cup {<<Op("remove_image", r.old_image_to_cleanup)>>}
         /\ Set(s, Return(IF r.kind = "update_env" THEN r ELSE emit_completed(r),
                          "ok", "none"))
    /\ UNCHANGED <<volumes, images, Store, Tenant, nextId, clock, nreq, Sse>>

\* ----------------------------------------------------- purge_project_handler
SubmitPurge(s, users, limit) ==
    /\ ~InFlight(s)
    /\ nreq < limit
    /\ nreq' = nreq + 1
    /\ \E u \in users, id \in ProjectIds :
         LET r == Request("purge", u, id)
             found == get_project_for_owner(id, u, u \in Admins) IN
         Set(s, IF found = {} THEN Return(r, "err", "NOT_FOUND")
                ELSE Goto(WithProject(r, CHOOSE p \in found : TRUE), "purge_database"))
    /\ UNCHANGED <<Runtime, Store, Tenant, tasks, nextId, clock, faults, Sse>>

purge_project_handler(s) == SubmitPurge(s, Users, MaxRequests)

\* deprovision_linked_database : database_service::deprovision_database drops the
\* tenant database and user, then deletes the row; any error ends the purge
deprovision_linked_database(s) ==
    LET r == req[s]
        linked == get_database_by_project_id(r.project.id) IN
    /\ r.pc = "purge_database"
    /\ IF linked = {}
       THEN /\ Set(s, Goto(r, "purge_runtime"))
            /\ UNCHANGED <<databases, Tenant, faults>>
       ELSE LET db == CHOOSE d \in linked : TRUE IN
            \E o \in DeprovisioningOutcomes(0) \cup (IF faults < MaxFaults THEN {"fail_delete"} ELSE {}) :
              /\ execute_mariadb_deprovisioning(IF o = "fail_delete" THEN "ok" ELSE o,
                                                db.database_name, db.username)
              /\ faults' = faults + Cost(o = "ok")
              /\ databases' = IF o = "ok" THEN databases \ {db} ELSE databases
              /\ Set(s, [(IF o = "ok" THEN Goto(r, "purge_runtime")
                          ELSE Return(FailedAt(r, "purge_database"), "err", "INTERNAL"))
                           EXCEPT !.linked_database = db.database_name])
    /\ UNCHANGED <<Runtime, projects, participants, tasks, nextId, clock, nreq, Sse>>

\* remove_container?, remove_persistent_volume?, remove_image_best_effort
purge_runtime_resources(s) ==
    LET r == req[s] IN
    /\ r.pc = "purge_runtime"
    /\ \E k \in FailingCall(3) :
         LET cs == remove_container(containers, r.project.container_name, k # 1)
             hasVol == r.project.persistent_volume_path # "none"
             named == r.project.volume_name # NoName
             volOk == ~hasVol \/ (named /\ RemoveVolumeOk(cs, volumes, r.project.volume_name, k # 2))
             reached_volume == k # 1
             reached_image == k # 1 /\ volOk IN
         /\ (k = 2 => hasVol /\ named)
         /\ (k = 3 => volOk)
         /\ faults' = faults + Cost(k = 0)
         /\ containers' = cs
         /\ volumes' = IF reached_volume /\ hasVol /\ named
                       THEN remove_volume_by_name(cs, volumes, r.project.volume_name, k # 2)
                       ELSE volumes
         /\ images' = IF reached_image
                      THEN remove_image(cs, images, r.project.deployed_image_tag, k # 3)
                      ELSE images
         /\ Set(s, IF reached_image THEN Goto(r, "purge_delete")
                   ELSE Return(FailedAt(r, "purge_runtime"), "err", "INTERNAL"))
    /\ UNCHANGED <<Store, Tenant, tasks, nextId, clock, nreq, Sse>>

\* participants are destroyed with the project
delete_participants_of(id) ==
    [x \in {y \in BagToSet(participants) : y[1] # id} |-> participants[x]]

\* project_service::delete_project_by_id ; the rows of project_participants go
\* with their project
delete_project_by_id(s) ==
    LET r == req[s] IN
    /\ r.pc = "purge_delete"
    /\ \E ok \in Outcomes :
         LET gone == ~\E p \in projects : p.id = r.project.id IN
         /\ Charge(ok)
         /\ projects' = IF ok THEN {p \in projects : p.id # r.project.id} ELSE projects
         /\ participants' = IF ok THEN delete_participants_of(r.project.id)
                            ELSE participants
         /\ Set(s, IF ~ok THEN Return(FailedAt(r, "purge_delete"), "err", "DELETE_FAILED")
                   ELSE IF gone THEN Return(FailedAt(r, "purge_delete"), "err", "NOT_FOUND")
                   ELSE Return(r, "ok", "none"))
    /\ UNCHANGED <<Runtime, databases, Tenant, tasks, nextId, clock, nreq, Sse>>

\* --------------------------------------- start / stop / restart of a project
ProjectActions == {"start", "stop", "restart"}

\* the runtime's start, stop and restart of a container by name
ActionExecute(cs, action, n) ==
    {IF c.name = n
     THEN [c EXCEPT !.status = IF action = "stop" THEN "stopped" ELSE "running"]
     ELSE c : c \in cs}

\* project_control_handler : the row is read for the user
project_control_handler(s) ==
    /\ ~InFlight(s)
    /\ nreq < MaxRequests
    /\ nreq' = nreq + 1
    /\ \E u \in Users, id \in ProjectIds, action \in ProjectActions :
         LET r == Request(action, u, id)
             found == get_project_for_user(id, u, u \in Admins) IN
         Set(s, IF found = {} THEN Return(r, "err", "NOT_FOUND")
                ELSE Goto(WithProject(r, CHOOSE p \in found : TRUE), "control"))
    /\ UNCHANGED <<Runtime, Store, Tenant, tasks, nextId, clock, faults, Sse>>

\* validate_container_exists_for_action, then ProjectAction::execute
project_action_execute(s) ==
    LET r == req[s]
        n == r.project.container_name IN
    /\ r.pc = "control"
    /\ \E ok \in Outcomes :
         /\ Charge(ok)
         /\ IF ~ContainerExists(n) /\ r.kind \in {"start", "restart"}
            THEN /\ ok
                 /\ containers' = containers
                 /\ Set(s, Return(r, "err", "NOT_FOUND"))
            ELSE IF ok /\ ContainerExists(n)
            THEN /\ containers' = ActionExecute(containers, r.kind, n)
                 /\ Set(s, Return(r, "ok", "none"))
            ELSE /\ containers' = containers
                 /\ Set(s, Return(r, "err", "INTERNAL"))
    /\ UNCHANGED <<volumes, images, Store, Tenant, tasks, nextId, clock, nreq, Sse>>

\* ------------------------------------------------------ participant handlers
\* INSERT ... ON CONFLICT DO NOTHING
add_participant_to_project(id, u) ==
    IF participants_unique_violation(id, <<u>>) THEN participants
    ELSE participants (+) SetToBag({<<id, u>>})
\* DELETE ... WHERE project_id = $1 AND participant_id = $2 ; no row deleted is
\* only logged
remove_participant_from_project(id, u) ==
    [x \in BagToSet(participants) \ {<<id, u>>} |-> participants[x]]

AddParticipant(s, limit) ==
    /\ ~InFlight(s)
    /\ nreq < limit
    /\ nreq' = nreq + 1
    /\ \E u \in Users, id \in ProjectIds, who \in Users, ok \in Outcomes :
         LET r == [Request("add_participant", u, id) EXCEPT !.participants = <<who>>]
             found == get_project_for_owner(id, u, u \in Admins)
             refused == found = {} \/ (CHOOSE p \in found : TRUE).owner = who IN
         /\ (refused => ok)
         /\ Charge(ok)
         /\ participants' = IF ~refused /\ ok THEN add_participant_to_project(id, who)
                            ELSE participants
         /\ Set(s, IF found = {} THEN Return(r, "err", "NOT_FOUND")
                   ELSE IF refused THEN Return(WithProject(r, CHOOSE p \in found : TRUE),
                                               "err", "OWNER_CANNOT_BE_PARTICIPANT")
                   ELSE Return(WithProject(r, CHOOSE p \in found : TRUE),
                               IF ok THEN "ok" ELSE "err", IF ok THEN "none" ELSE "INTERNAL"))
    /\ UNCHANGED <<Runtime, projects, databases, Tenant, tasks, nextId, clock, Sse>>

add_participant_handler(s) == AddParticipant(s, MaxRequests)

RemoveParticipant(s, limit) ==
    /\ ~InFlight(s)
    /\ nreq < limit
    /\ nreq' = nreq + 1
    /\ \E u \in Users, id \in ProjectIds, who \in Users, ok \in Outcomes :
         LET r == [Request("remove_participant", u, id) EXCEPT !.participants = <<who>>]
             found == get_project_for_owner(id, u, u \in Admins) IN
         /\ (found = {} => ok)
         /\ Charge(ok)
         /\ participants' = IF found # {} /\ ok THEN remove_participant_from_project(id, who)
                            ELSE participants
         /\ Set(s, IF found = {} THEN Return(r, "err", "NOT_FOUND")
                   ELSE LET q == WithProject(r, CHOOSE p \in found : TRUE) IN
                        IF ~ok THEN Return(q, "err", "INTERNAL")
                        ELSE Return(q, "ok", "none"))
    /\ UNCHANGED <<Runtime, projects, databases, Tenant, tasks, nextId, clock, Sse>>

remove_participant_handler(s) == RemoveParticipant(s, MaxRequests)

\* ------------------------------------------------------------ detached tasks
\* the next operation of a tokio::spawn'ed cleanup; its error is logged and the
\* task goes on.  Identical pending tasks are one task
run_detached_task ==
    \E t \in tasks, ok \in Outcomes :
      LET op == Head(t) IN
      /\ Charge(ok)
      /\ tasks' = (tasks \ {t}) \cup (IF Len(t) > 1 THEN {Tail(t)} ELSE {})
      /\ containers' = CASE op.op = "remove_container" ->
                              remove_container(containers, op.arg, ok)
                         [] op.op = "remove_container_raw" ->
                              IF ok /\ ~ContainerRunning(op.arg)
                              THEN WithoutContainer(containers, op.arg)
                              ELSE containers
                         [] OTHER -> containers
      /\ volumes' = IF op.op = "remove_volume"
                    THEN remove_volume_by_name(containers, volumes, op.arg, ok)
                    ELSE volumes
      /\ images' = IF op.op = "remove_image"
                   THEN remove_image(containers, images, op.arg, ok)
                   ELSE images
      /\ UNCHANGED <<Store, Tenant, req, nextId, clock, nreq, Sse>>

\* the runtime restarts a container that exited on its own
container_restarts == \E c \in containers : restart_policy(c.name)

\* ---------------------------------------------------------------- sse channels
Entry(map, key) == {e \in map : e.key = key}
ChannelOf(map, key) == (CHOOSE e \in map : e.key = key).ch
\* tx.receiver_count() : a receiver lives from tx.subscribe() until its stream is dropped
receiver_count(ch) ==
    Cardinality({c \in ClientIds : clients[c].pc = "streaming" /\ clients[c].ch = ch})
\* the senders alive: the registries' and the clone a subscribing handler holds
SenderAlive(ch) ==
    \/ \E e \in project_channels : e.ch = ch
    \/ \E e \in creation_channels : e.ch = ch
    \/ \E c \in ClientIds : clients[c].pc = "subscribing" /\ clients[c].ch = ch
FreeChannels ==
    {ch \in ChannelIds : ~SenderAlive(ch) /\ receiver_count(ch) = 0}
NewChannel == CHOOSE ch \in FreeChannels : \A o \in FreeChannels : ch <= o
\* a channel that no sender and no receiver refers to any more is freed
Reclaimed(sn, pm, cm, cl) ==
    [ch \in ChannelIds |->
       IF \/ \E e \in pm : e.ch = ch
          \/ \E e \in cm : e.ch = ch
          \/ \E c \in ClientIds : cl[c].pc # "idle" /\ cl[c].ch = ch
       THEN sn[ch] ELSE NoSender]
\* map.entry(key).or_insert_with(|| broadcast::channel(BROADCAST_CAPACITY).0).clone()
EntryOrInsert(map, key) ==
    IF Entry(map, key) # {} THEN ChannelOf(map, key) ELSE NewChannel
CanEnter(map, key) == Entry(map, key) # {} \/ FreeChannels # {}
\* the write lock cleanup_empty_channels holds on a registry while it retains
ProjectMapFree == cleaner.pc # "projects"
CreationMapFree == cleaner.pc # "creations"

\* tx.send(event) : the value joins the retained ones; the oldest leaves when
\* the channel is full
send(s, ev) == [sent |-> s.sent + 1]
\* the number of values the channel retains
Retained(ch) ==
    IF senders[ch].sent > ChannelLen(BROADCAST_CAPACITY)
    THEN ChannelLen(BROADCAST_CAPACITY) ELSE senders[ch].sent

\* emit_to_project / emit_to_creation : the entry is taken or inserted; with no
\* receiver the event is dropped and cleanup_*_channel removes the empty entry,
\* otherwise the event is sent
Emit(map, key, ev) ==
    IF Entry(map, key) = {} \/ receiver_count(ChannelOf(map, key)) = 0
    THEN [map |-> {e \in map : e.key # key}, senders |-> senders, sent |-> 0]
    ELSE [map |-> map,
          senders |-> [senders EXCEPT ![ChannelOf(map, key)] = send(@, ev)],
          sent |-> 1]
emit_to_project(project_id, ev) ==
    LET e == Emit(project_channels, project_id, ev) IN
    [e EXCEPT !.senders = Reclaimed(@, e.map, creation_channels, clients)]
emit_to_creation(user_login, ev) ==
    LET e == Emit(creation_channels, user_login, ev) IN
    [e EXCEPT !.senders = Reclaimed(@, project_channels, e.map, clients)]
\* the effect of one emit_to_project call on the manager
Bounded(e) == \A ch \in ChannelIds : e.senders[ch].sent <= MaxEvents
EmitsToProject(project_id, ev) ==
    LET e == emit_to_project(project_id, ev) IN
    /\ ProjectMapFree
    /\ Bounded(e)
    /\ project_channels' = e.map
    /\ senders' = e.senders

\* SseEvent::Deployment, ContainerStatus, Metrics
DeploymentEvent(project_id) == [type |-> "deployment", project |-> project_id, status |-> "none"]
ContainerStatusEvent(project_id, status) ==
    [type |-> "container_status", project |-> project_id, status |-> status]
MetricsEvent(project_id) == [type |-> "metrics", project |-> project_id, status |-> "none"]

\* emit_deployment_stage, as the orchestrator of a running request calls it
emit_deployment_stage ==
    /\ \E p \in projects : EmitsToProject(p.id, DeploymentEvent(p.id))
    /\ UNCHANGED <<Backend, creation_channels, clients, listener, collector, cleaner, shutdown>>

\* emit_creation_deployment_stage, as the orchestrator calls it before the row exists
emit_creation_deployment_stage ==
    /\ CreationMapFree
    /\ \E u \in Users :
         LET e == emit_to_creation(u, DeploymentEvent(0)) IN
         /\ Bounded(e)
         /\ creation_channels' = e.map
         /\ senders' = e.senders
    /\ UNCHANGED <<Backend, project_channels, clients, listener, collector, cleaner, shutdown>>

\* ------------------------------------------------------------- sse handlers
\* sse_project_handler up to the clone of the sender in subscribe_to_project
sse_project_handler(c) ==
    /\ clients[c].pc = "idle" /\ clients[c].initial = "none"
    /\ ProjectMapFree
    /\ \E u \in Users, id \in ProjectIds :
         LET found == get_project_by_id_for_user(id, u, u \in Admins) IN
         /\ found # {}
         /\ CanEnter(project_channels, id)
         /\ LET ch == EntryOrInsert(project_channels, id) IN
            /\ project_channels' = project_channels \cup {[key |-> id, ch |-> ch]}
            /\ senders' = IF Entry(project_channels, id) = {}
                          THEN [senders EXCEPT ![ch] = NoSender] ELSE senders
            /\ clients' = [clients EXCEPT ![c] =
                             [IdleClient EXCEPT !.pc = "subscribing", !.kind = "project",
                                                !.key = id, !.ch = ch,
                                                !.container_name =
                                                    (CHOOSE p \in found : TRUE).container_name]]
    /\ UNCHANGED <<Backend, creation_channels, listener, collector, cleaner, shutdown>>

\* sse_creation_handler up to the clone of the sender in subscribe_to_creation
sse_creation_handler(c) ==
    /\ clients[c].pc = "idle" /\ clients[c].initial = "none"
    /\ CreationMapFree
    /\ \E u \in Users :
         /\ CanEnter(creation_channels, u)
         /\ LET ch == EntryOrInsert(creation_channels, u) IN
            /\ creation_channels' = creation_channels \cup {[key |-> u, ch |-> ch]}
            /\ senders' = IF Entry(creation_channels, u) = {}
                          THEN [senders EXCEPT ![ch] = NoSender] ELSE senders
            /\ clients' = [clients EXCEPT ![c] =
                             [IdleClient EXCEPT !.pc = "subscribing", !.kind = "creation",
                                                !.key = u, !.ch = ch]]
    /\ UNCHANGED <<Backend, project_channels, listener, collector, cleaner, shutdown>>

\* tx.subscribe() on the clone, outside the lock; create_sse_stream; the project
\* handler then spawns send_initial_project_state
subscribe(c) ==
    /\ clients[c].pc = "subscribing"
    /\ clients' = [clients EXCEPT ![c].pc = "streaming",
                                  ![c].start = senders[clients[c].ch].sent,
                                  ![c].next = senders[clients[c].ch].sent,
                                  ![c].initial = IF clients[c].kind = "project"
                                                 THEN "status" ELSE "none"]
    /\ UNCHANGED <<Backend, project_channels, creation_channels, senders, listener,
                   collector, cleaner, shutdown>>

\* one poll of the stream of create_sse_stream.  The receiver has seen the values
\* before position next; a value is item next + 1 of its channel, a warning of
\* n missed messages is item -n
Lagged(c) == senders[clients[c].ch].sent - clients[c].next > ChannelLen(BROADCAST_CAPACITY)
\* a receiver that resumes behind the newest value, missing all it had not read
newest_position(ch) == senders[ch].sent
OldestRetained(ch) == senders[ch].sent - Retained(ch)
create_sse_stream(c) ==
    LET r == clients[c] IN
    /\ r.pc = "streaming"
    /\ r.next < senders[r.ch].sent
    /\ clients' = [clients EXCEPT ![c] =
                     IF Lagged(c)
                     THEN [r EXCEPT !.got = Append(@, r.next - OldestRetained(r.ch)),
                                    !.next = OldestRetained(r.ch)]
                     ELSE [r EXCEPT !.got = Append(@, r.next + 1), !.next = r.next + 1]]
    /\ UNCHANGED <<Backend, project_channels, creation_channels, senders, listener,
                   collector, cleaner, shutdown>>

\* the client goes away and axum drops the stream with its receiver; the
\* spawned initial-state task goes on
Dropped(r) ==
    [IdleClient EXCEPT !.initial = r.initial, !.key = IF r.initial = "none" THEN 0 ELSE r.key,
                       !.container_name = IF r.initial = "none" THEN NoName
                                          ELSE r.container_name]
client_disconnects(c) ==
    /\ clients[c].pc = "streaming"
    /\ clients' = [clients EXCEPT ![c] = Dropped(clients[c])]
    /\ senders' = Reclaimed(senders, project_channels, creation_channels, clients')
    /\ UNCHANGED <<Backend, project_channels, creation_channels, listener, collector,
                   cleaner, shutdown>>

\* every sender of the channel is gone and the receiver has read what was
\* retained: recv() is Closed, the stream ends
stream_closed(c) ==
    /\ clients[c].pc = "streaming"
    /\ ~SenderAlive(clients[c].ch)
    /\ clients[c].next = senders[clients[c].ch].sent
    /\ clients' = [clients EXCEPT ![c] = Dropped(clients[c])]
    /\ senders' = Reclaimed(senders, project_channels, creation_channels, clients')
    /\ UNCHANGED <<Backend, project_channels, creation_channels, listener, collector,
                   cleaner, shutdown>>

\* docker_service::get_container_status : the state the runtime reports
get_container_status(name) ==
    IF ContainerExists(name)
    THEN (CHOOSE k \in containers : k.name = name).status
    ELSE "unknown"

\* send_initial_project_state : the status event, then the metrics event
send_initial_project_state(c) ==
    LET r == clients[c] IN
    /\ r.initial # "none"
    /\ \E ok \in Outcomes :
         /\ Charge(ok)
         /\ IF ok
            THEN EmitsToProject(r.key,
                                IF r.initial = "status"
                                THEN ContainerStatusEvent(r.key,
                                                          get_container_status(r.container_name))
                                ELSE MetricsEvent(r.key))
            ELSE UNCHANGED <<project_channels, senders>>
    /\ clients' = [clients EXCEPT ![c] =
                     IF r.initial = "status" THEN [r EXCEPT !.initial = "metrics"]
                     ELSE IF r.pc = "idle" THEN IdleClient
                     ELSE [r EXCEPT !.initial = "none"]]
    /\ UNCHANGED <<containers, volumes, images, Store, Tenant, tasks, req, nextId, clock,
                   nreq, creation_channels, listener, collector, cleaner, shutdown>>

\* ------------------------------------------------------- background workers
\* the actions of the runtime's events, and the name attribute of their actor:
\* a leading '/' or none, then the container's name, empty when the attribute
\* is missing
DockerActions ==
    {"create", "restart", "start", "unpause", "stop", "die", "kill", "oom", "pause",
     "destroy"}
DockerNames ==
    {[slashes |-> 1, rest |-> ContainerName("p1", 0)],
     [slashes |-> 0, rest |-> ContainerName("p1", 0)],
     [slashes |-> 1, rest |-> ContainerName("p9", 0)],
     [slashes |-> 0, rest |-> NoName]}
DockerEvents == [action : DockerActions, name : DockerNames]
\* name.trim_start_matches('/')
trim_start_matches(name) == name.rest

\* a match that takes kill and oom for an exit
status_without_dead(action) ==
    CASE action = "create" -> "created"
      [] action = "restart" -> "restarting"
      [] action \in {"start", "unpause"} -> "running"
      [] action \in {"stop", "die", "kill", "oom"} -> "exited"
      [] action = "pause" -> "paused"
      [] OTHER -> "none"
\* the match of handle_docker_event, "none" for the actions it ignores
container_status_of(action) ==
    CASE action = "create" -> "created"
      [] action = "restart" -> "restarting"
      [] action \in {"start", "unpause"} -> "running"
      [] action \in {"stop", "die"} -> "exited"
      [] action \in {"kill", "oom"} -> "dead"
      [] action = "pause" -> "paused"
      [] OTHER -> "none"

\* SELECT ... WHERE container_name = $1
get_project_by_container_name(name) == {p \in projects : p.container_name = name}

\* emit_container_status, then emit_container_crashed_to_admin for Dead.
\* subscribe_admin has no caller: the admin sender never has a receiver and
\* emit_to_admin drops the event
EmitCalls(project_id, status) ==
    <<[chan |-> "project", project |-> project_id, status |-> status]>>
    \o (IF status = "dead"
        THEN <<[chan |-> "admin", project |-> project_id, status |-> status]>>
        ELSE <<>>)

\* stream.next() is Some(Ok(event)) in the listener's select!
StreamYields(events) ==
    /\ listener.pc = "select"
    /\ \E ev \in events :
         listener' = [listener EXCEPT !.pc = "handle", !.event = ev, !.emits = <<>>]
    /\ UNCHANGED <<Backend, project_channels, creation_channels, senders, clients,
                   collector, cleaner, shutdown>>
stream_next == StreamYields(DockerEvents)

\* handle_docker_event on the event taken from the stream; emits keeps the
\* emit calls made for the last event of the current stream
handle_docker_event ==
    /\ listener.pc = "handle"
    /\ \E ok \in Outcomes :
         LET ev == listener.event
             status == container_status_of(ev.action)
             name == trim_start_matches(ev.name)
             found == IF status = "none" \/ name = NoName THEN {}
                      ELSE get_project_by_container_name(name) IN
         /\ (status = "none" \/ name = NoName => ok)
         /\ Charge(ok)
         /\ IF ok /\ found # {}
            THEN LET p == CHOOSE p \in found : TRUE IN
                 /\ EmitsToProject(p.id, ContainerStatusEvent(p.id, status))
                 /\ listener' = [listener EXCEPT !.pc = "select", !.event = NoEvent,
                                                 !.emits = EmitCalls(p.id, status)]
            ELSE /\ listener' = [listener EXCEPT !.pc = "select", !.event = NoEvent,
                                                 !.emits = <<>>]
                 /\ UNCHANGED <<project_channels, senders>>
    /\ UNCHANGED <<containers, volumes, images, Store, Tenant, tasks, req, nextId, clock,
                   nreq, creation_channels, clients, collector, cleaner, shutdown>>

\* stream.next() is Some(Err) or None: the inner loop breaks
events_stream_fails ==
    /\ listener.pc = "select"
    /\ listener.reconnects < MaxReconnects
    /\ listener' = [listener EXCEPT !.pc = "check"]
    /\ UNCHANGED <<Backend, project_channels, creation_channels, senders, clients,
                   collector, cleaner, shutdown>>

\* a listener that returns whenever its stream breaks
listener_gives_up ==
    /\ listener.pc = "check"
    /\ listener' = [listener EXCEPT !.pc = "stopped"]
    /\ UNCHANGED <<Backend, project_channels, creation_channels, senders, clients,
                   collector, cleaner, shutdown>>
\* shutdown_signal.try_recv().is_ok() after the break
listener_try_recv ==
    /\ listener.pc = "check"
    /\ listener' = [listener EXCEPT !.pc = IF shutdown THEN "stopped" ELSE "sleep"]
    /\ UNCHANGED <<Backend, project_channels, creation_channels, senders, clients,
                   collector, cleaner, shutdown>>

\* sleep(5 s) is over and docker.events(options) opens the next stream
listener_reconnects ==
    /\ listener.pc = "sleep"
    /\ listener' = [listener EXCEPT !.pc = "select", !.reconnects = @ + 1, !.emits = <<>>]
    /\ UNCHANGED <<Backend, project_channels, creation_channels, senders, clients,
                   collector, cleaner, shutdown>>

\* a select! whose shutdown branch goes back to the loop
listener_ignores_shutdown == listener.pc = "select" /\ shutdown /\ UNCHANGED vars
\* the shutdown branch of the listener's select!
listener_shutdown ==
    /\ listener.pc = "select"
    /\ shutdown
    /\ listener' = [listener EXCEPT !.pc = "stopped"]
    /\ UNCHANGED <<Backend, project_channels, creation_channels, senders, clients,
                   collector, cleaner, shutdown>>

\* SseManager::get_active_project_ids
\* a read that takes every registered project for active
registered_project_ids == {e.key : e \in project_channels}
get_active_project_ids == {e.key : e \in {x \in project_channels : receiver_count(x.ch) > 0}}

\* interval.tick() of the collector, and collect_all_metrics up to the read of
\* the active set
metrics_tick ==
    /\ collector.pc = "select"
    /\ ProjectMapFree
    /\ collector' = [pc |-> IF get_active_project_ids = {} THEN "select" ELSE "fetch",
                     active |-> get_active_project_ids, todo |-> {}]
    /\ UNCHANGED <<Backend, project_channels, creation_channels, senders, clients,
                   listener, cleaner, shutdown>>

\* project_service::get_projects_by_ids ; its error ends the tick
get_projects_by_ids ==
    /\ collector.pc = "fetch"
    /\ \E ok \in Outcomes :
         LET rows == {[id |-> p.id, container_name |-> p.container_name] :
                        p \in {x \in projects : x.id \in collector.active}} IN
         /\ Charge(ok)
         /\ collector' = [collector EXCEPT !.pc = IF ok /\ rows # {} THEN "sample" ELSE "select",
                                           !.todo = IF ok THEN rows ELSE {}]
    /\ UNCHANGED <<containers, volumes, images, Store, Tenant, tasks, req, nextId, clock,
                   nreq, project_channels, creation_channels, senders, clients, listener,
                   cleaner, shutdown>>

\* one round of the loop of collect_all_metrics: get_container_metrics, and
\* emit_metrics when it succeeds
sample_container_metrics ==
    /\ collector.pc = "sample"
    /\ \E p \in collector.todo, ok \in Outcomes :
         /\ Charge(ok)
         /\ IF ok THEN EmitsToProject(p.id, MetricsEvent(p.id))
            ELSE UNCHANGED <<project_channels, senders>>
         /\ collector' = [collector EXCEPT !.todo = @ \ {p},
                                           !.pc = IF collector.todo = {p} THEN "select"
                                                  ELSE "sample"]
    /\ UNCHANGED <<containers, volumes, images, Store, Tenant, tasks, req, nextId, clock,
                   nreq, creation_channels, clients, listener, cleaner, shutdown>>

\* the shutdown branch of the collector's select!
collector_shutdown ==
    /\ collector.pc = "select"
    /\ shutdown
    /\ collector' = [collector EXCEPT !.pc = "stopped"]
    /\ UNCHANGED <<Backend, project_channels, creation_channels, senders, clients,
                   listener, cleaner, shutdown>>

\* interval.tick() of start_cleanup_task: cleanup_empty_channels takes the write
\* lock of project_channels
cleanup_tick ==
    /\ cleaner.pc = "select"
    /\ cleaner' = [pc |-> "projects", todo |-> {e.key : e \in project_channels}, cur |-> {}]
    /\ UNCHANGED <<Backend, project_channels, creation_channels, senders, clients,
                   listener, collector, shutdown>>

\* the closure of map.retain reads tx.receiver_count() of one entry
\* a read that finds every channel empty
no_receiver(ch) == FALSE
has_subscribers(ch) == receiver_count(ch) > 0
RetainedMap == IF cleaner.pc = "projects" THEN project_channels ELSE creation_channels
retain_reads_count ==
    /\ cleaner.pc \in {"projects", "creations"}
    /\ cleaner.cur = {}
    /\ \E k \in cleaner.todo :
         cleaner' = [cleaner EXCEPT !.todo = @ \ {k},
                                    !.cur = IF has_subscribers(ChannelOf(RetainedMap, k))
                                            THEN {} ELSE {k}]
    /\ UNCHANGED <<Backend, project_channels, creation_channels, senders, clients,
                   listener, collector, shutdown>>

\* map.retain drops the entry its closure did not keep
retain_removes ==
    /\ cleaner.cur # {}
    /\ IF cleaner.pc = "projects"
       THEN /\ project_channels' = {e \in project_channels : e.key \notin cleaner.cur}
            /\ UNCHANGED creation_channels
       ELSE /\ creation_channels' = {e \in creation_channels : e.key \notin cleaner.cur}
            /\ UNCHANGED project_channels
    /\ cleaner' = [cleaner EXCEPT !.cur = {}]
    /\ senders' = Reclaimed(senders, project_channels', creation_channels', clients)
    /\ UNCHANGED <<Backend, clients, listener, collector, shutdown>>

\* the end of a retain: the lock goes, the creation registry is next, then the
\* task is back at its select!
retain_ends ==
    /\ cleaner.pc \in {"projects", "creations"}
    /\ cleaner.todo = {} /\ cleaner.cur = {}
    /\ cleaner' = IF cleaner.pc = "projects"
                  THEN [cleaner EXCEPT !.pc = "creations",
                                       !.todo = {e.key : e \in creation_channels}]
                  ELSE [cleaner EXCEPT !.pc = "select"]
    /\ UNCHANGED <<Backend, project_channels, creation_channels, senders, clients,
                   listener, collector, shutdown>>

\* the shutdown branch of the cleanup task's select!
cleaner_shutdown ==
    /\ cleaner.pc = "select"
    /\ shutdown
    /\ cleaner' = [cleaner EXCEPT !.pc = "stopped"]
    /\ UNCHANGED <<Backend, project_channels, creation_channels, senders, clients,
                   listener, collector, shutdown>>

\* main's shutdown_signal: shutdown_tx.send(())
shutdown_signal ==
    /\ ~shutdown
    /\ shutdown' = TRUE
    /\ UNCHANGED <<Backend, project_channels, creation_channels, senders, clients,
                   listener, collector, cleaner>>

\* ------------------------------------------------------------ specifications
\* one request at a time on slot 1; detached tasks and the runtime interleave
Step(s) ==
    \/ deploy_project_handler(s)
    \/ check_deployment_preconditions(s)
    \/ pull_image_with_error_handling(s)
    \/ scan_image_with_rollback(s)
    \/ clone_repository(s)
    \/ build_image_from_tar(s)
    \/ deploy_get_image_digest(s)
    \/ create_container_with_rollback(s)
    \/ wait_for_container_health(s)
    \/ deploy_health_check_rollback(s)
    \/ create_project_in_transaction(s)
    \/ provision_database_in_transaction(s)
    \/ insert_database_in_transaction(s)
    \/ rollback_mariadb_provisioning(s)
    \/ add_participants_in_transaction(s)
    \/ rollback_docker_resources(s)
    \/ commit_transaction(s)
    \/ update_project_image_handler(s)
    \/ rebuild_project_handler(s)
    \/ prepare_blue_green_deployment(s)
    \/ create_new_container_for_deployment(s)
    \/ update_env_vars_handler(s)
    \/ create_container_for_env_update(s)
    \/ update_metadata_container_name(s)
    \/ update_metadata_image_and_digest(s)
    \/ update_metadata_source_url(s)
    \/ update_env_container_name(s)
    \/ update_env_env_vars(s)
    \/ cleanup_old_deployment(s)
    \/ purge_project_handler(s)
    \/ deprovision_linked_database(s)
    \/ purge_runtime_resources(s)
    \/ delete_project_by_id(s)
    \/ project_control_handler(s)
    \/ project_action_execute(s)
    \/ add_participant_handler(s)
    \/ remove_participant_handler(s)

Next == Step(1) \/ run_detached_task \/ container_restarts

Spec == Init /\ [][Next]_vars

\* concurrent deploys: axum serves every request on its own task, so two
\* deploy_project_handler runs interleave at every await.  No call fails here
ConcurrentPayloads ==
    [project_name : ProjectNames,
     source : {[image_url |-> "img1", github_repo_url |-> "none"]},
     participants : {<<>>}, env_vars : {"e1"},
     persistent_volume_path : {"none"}, create_database : BOOLEAN]

concurrent_deploy_project_handler(s) == SubmitDeploy(s, Users, ConcurrentPayloads, MaxRequests)

InitConc ==
    /\ containers = {}
    /\ volumes = {}
    /\ images = {}
    /\ projects = {}
    /\ participants = EmptyBag
    /\ databases = {}
    /\ tenantDbs = {}
    /\ tenantUsers = {}
    /\ tasks = {}
    /\ req = [s \in Slots |-> IdleReq]
    /\ nextId = 1
    /\ clock = 1
    /\ faults = MaxFaults
    /\ nreq = 0
    /\ SseInit

DeployStep(s) ==
    \/ concurrent_deploy_project_handler(s)
    \/ check_deployment_preconditions(s)
    \/ pull_image_with_error_handling(s)
    \/ scan_image_with_rollback(s)
    \/ deploy_get_image_digest(s)
    \/ create_container_with_rollback(s)
    \/ wait_for_container_health(s)
    \/ deploy_health_check_rollback(s)
    \/ create_project_in_transaction(s)
    \/ provision_database_in_transaction(s)
    \/ insert_database_in_transaction(s)
    \/ rollback_mariadb_provisioning(s)
    \/ add_participants_in_transaction(s)
    \/ rollback_docker_resources(s)
    \/ commit_transaction(s)

NextConc == (\E s \in Slots : DeployStep(s)) \/ container_restarts

SpecConc == InitConc /\ [][NextConc]_vars

\* two deploys of one project name, submitted by any two users, with the
\* detached clean-up tasks that create_project_container spawns.  No call fails
SameNamePayloads ==
    [project_name : {"p1"},
     source : {[image_url |-> "img1", github_repo_url |-> "none"]},
     participants : {<<>>}, env_vars : {"e1"},
     persistent_volume_path : {"none", "/data"}, create_database : {FALSE}]

same_name_deploy_project_handler(s) == SubmitDeploy(s, Users, SameNamePayloads, MaxRequests)

SameNameStep(s) ==
    \/ same_name_deploy_project_handler(s)
    \/ check_deployment_preconditions(s)
    \/ pull_image_with_error_handling(s)
    \/ scan_image_with_rollback(s)
    \/ deploy_get_image_digest(s)
    \/ create_container_with_rollback(s)
    \/ wait_for_container_health(s)
    \/ deploy_health_check_rollback(s)
    \/ create_project_in_transaction(s)
    \/ add_participants_in_transaction(s)
    \/ rollback_docker_resources(s)
    \/ commit_transaction(s)

NextSameName == (\E s \in Slots : SameNameStep(s)) \/ run_detached_task \/ container_restarts

SpecSameName == InitConc /\ [][NextSameName]_vars

\* one owner deploying a direct-source project and then updating its image,
\* request after request; a detached task of a returned request may still be
\* pending when the next request starts
SeqPayloads ==
    [project_name : {"p1"},
     source : {[image_url |-> "img1", github_repo_url |-> "none"]},
     participants : {<<>>}, env_vars : {"e1"},
     persistent_volume_path : {"none"}, create_database : {FALSE}]

seq_deploy_project_handler(s) == SubmitDeploy(s, {"alice"}, SeqPayloads, MaxSeqRequests)
seq_update_project_image_handler(s) == SubmitImageUpdate(s, {"alice"}, MaxSeqRequests)

SeqStep(s) ==
    \/ seq_deploy_project_handler(s)
    \/ check_deployment_preconditions(s)
    \/ pull_image_with_error_handling(s)
    \/ scan_image_with_rollback(s)
    \/ deploy_get_image_digest(s)
    \/ create_container_with_rollback(s)
    \/ wait_for_container_health(s)
    \/ deploy_health_check_rollback(s)
    \/ create_project_in_transaction(s)
    \/ add_participants_in_transaction(s)
    \/ rollback_docker_resources(s)
    \/ commit_transaction(s)
    \/ seq_update_project_image_handler(s)
    \/ prepare_blue_green_deployment(s)
    \/ create_new_container_for_deployment(s)
    \/ update_metadata_container_name(s)
    \/ update_metadata_image_and_digest(s)
    \/ update_metadata_source_url(s)
    \/ cleanup_old_deployment(s)

NextSeq == SeqStep(1) \/ run_detached_task \/ container_restarts

SpecSeq == Init /\ [][NextSeq]_vars

\* concurrent updates: after a deploy, image and env updates of the project
\* run on two tasks and interleave at every await.  No call fails here
race_update_env_vars_handler(s) == SubmitEnvUpdate(s, {"alice"}, MaxSeqRequests)

RaceStep(s) ==
    \/ seq_deploy_project_handler(s)
    \/ check_deployment_preconditions(s)
    \/ pull_image_with_error_handling(s)
    \/ scan_image_with_rollback(s)
    \/ deploy_get_image_digest(s)
    \/ create_container_with_rollback(s)
    \/ wait_for_container_health(s)
    \/ deploy_health_check_rollback(s)
    \/ create_project_in_transaction(s)
    \/ add_participants_in_transaction(s)
    \/ rollback_docker_resources(s)
    \/ commit_transaction(s)
    \/ seq_update_project_image_handler(s)
    \/ prepare_blue_green_deployment(s)
    \/ create_new_container_for_deployment(s)
    \/ race_update_env_vars_handler(s)
    \/ create_container_for_env_update(s)
    \/ update_metadata_container_name(s)
    \/ update_metadata_image_and_digest(s)
    \/ update_metadata_source_url(s)
    \/ update_env_container_name(s)
    \/ update_env_env_vars(s)
    \/ cleanup_old_deployment(s)

NextRace == (\E s \in Slots : RaceStep(s)) \/ run_detached_task \/ container_restarts

SpecRace == InitConc /\ [][NextRace]_vars

\* the long-running routes sit behind TimeoutLayer(timeout_long): on expiry the
\* handler future is dropped at the await it is suspended on and the response
\* is 408.  Nothing of the handler runs any more; the open sqlx transaction is
\* rolled back by its Drop; tasks already spawned go on
LongRunningKinds == {"deploy", "purge", "update_image", "update_env", "rebuild"}

request_timeout(s) ==
    LET r == req[s] IN
    /\ InFlight(s)
    /\ r.kind \in LongRunningKinds
    /\ Set(s, [Return(r, "err", "REQUEST_TIMEOUT")
                EXCEPT !.aborted_at = r.pc, !.tx = NoTx, !.polls = 0])
    /\ UNCHANGED <<Runtime, Store, Tenant, tasks, nextId, clock, faults, nreq, Sse>>

NextTimeout == Step(1) \/ request_timeout(1) \/ run_detached_task \/ container_restarts

SpecTimeout == Init /\ [][NextTimeout]_vars

\* one owner's deploy, image update, rebuild, env update and purge requests,
\* one at a time, in a run where no runtime, store or tenant-server call fails
\* and every container the health wait polls is running before the wait gives up
HealthyPayloads ==
    [project_name : {"p1"},
     source : {[image_url |-> "img1", github_repo_url |-> "none"],
               [image_url |-> "none", github_repo_url |-> "repo"]},
     participants : {<<>>}, env_vars : {"e1"},
     persistent_volume_path : {"none", "/data"}, create_database : BOOLEAN]

healthy_deploy_project_handler(s) ==
    SubmitDeploy(s, {"alice"}, HealthyPayloads, MaxHealthyRequests)
healthy_update_project_image_handler(s) == SubmitImageUpdate(s, {"alice"}, MaxHealthyRequests)
healthy_rebuild_project_handler(s) == SubmitRebuild(s, {"alice"}, MaxHealthyRequests)
healthy_update_env_vars_handler(s) == SubmitEnvUpdate(s, {"alice"}, MaxHealthyRequests)
healthy_purge_project_handler(s) == SubmitPurge(s, {"alice"}, MaxHealthyRequests)

HealthyStep(s) ==
    \/ healthy_deploy_project_handler(s)
    \/ check_deployment_preconditions(s)
    \/ pull_image_with_error_handling(s)
    \/ scan_image_with_rollback(s)
    \/ clone_repository(s)
    \/ build_image_from_tar(s)
    \/ deploy_get_image_digest(s)
    \/ create_container_with_rollback(s)
    \/ wait_for_container_health(s) /\ req'[s].health # "failed"
    \/ create_project_in_transaction(s)
    \/ provision_database_in_transaction(s)
    \/ insert_database_in_transaction(s)
    \/ add_participants_in_transaction(s)
    \/ commit_transaction(s)
    \/ healthy_update_project_image_handler(s)
    \/ healthy_rebuild_project_handler(s)
    \/ prepare_blue_green_deployment(s)
    \/ create_new_container_for_deployment(s)
    \/ healthy_update_env_vars_handler(s)
    \/ create_container_for_env_update(s)
    \/ update_metadata_container_name(s)
    \/ update_metadata_image_and_digest(s)
    \/ update_metadata_source_url(s)
    \/ update_env_container_name(s)
    \/ update_env_env_vars(s)
    \/ cleanup_old_deployment(s)
    \/ healthy_purge_project_handler(s)
    \/ deprovision_linked_database(s)
    \/ purge_runtime_resources(s)
    \/ delete_project_by_id(s)

NextHealthy ==
    \/ HealthyStep(1)
    \/ run_detached_task
    \/ container_restarts

SpecHealthy == InitConc /\ [][NextHealthy]_vars

\* deploys of image projects with every list of participants of at most two
\* logins, and additions and removals of participants by every user, request
\* after request
ParticipantPayloads ==
    [project_name : ProjectNames,
     source : {[image_url |-> "img1", github_repo_url |-> "none"]},
     participants : {<<>>} \cup {<<u>> : u \in Users} \cup {<<u, v>> : u, v \in Users},
     env_vars : {"e1"}, persistent_volume_path : {"none"}, create_database : {FALSE}]

participants_deploy_project_handler(s) ==
    SubmitDeploy(s, Users, ParticipantPayloads, MaxParticipantRequests)
participants_add_participant_handler(s) == AddParticipant(s, MaxParticipantRequests)
participants_remove_participant_handler(s) == RemoveParticipant(s, MaxParticipantRequests)

ParticipantsStep(s) ==
    \/ participants_deploy_project_handler(s)
    \/ check_deployment_preconditions(s)
    \/ pull_image_with_error_handling(s)
    \/ scan_image_with_rollback(s)
    \/ deploy_get_image_digest(s)
    \/ create_container_with_rollback(s)
    \/ wait_for_container_health(s)
    \/ deploy_health_check_rollback(s)
    \/ create_project_in_transaction(s)
    \/ add_participants_in_transaction(s)
    \/ rollback_docker_resources(s)
    \/ commit_transaction(s)
    \/ participants_add_participant_handler(s)
    \/ participants_remove_participant_handler(s)

NextParticipants == ParticipantsStep(1) \/ run_detached_task \/ container_restarts

SpecParticipants == Init /\ [][NextParticipants]_vars

\* the teardown calls on their own: a platform on which alice's project p1 has
\* a persistent volume and a database and bob's project p2 has neither, and
\* calls of remove_container, remove_volume_by_name and
\* execute_mariadb_deprovisioning on names that exist and names that do not
TeardownRow(id, name, owner, path) ==
    [NoProject EXCEPT !.id = id, !.name = name, !.owner = owner,
                      !.container_name = ContainerName(name, 0), !.source = "direct",
                      !.source_url = Url("img1"), !.deployed_image_tag = Url("img1"),
                      !.deployed_image_digest = "d1", !.env_vars = encrypt_env_vars("e1"),
                      !.persistent_volume_path = path,
                      !.volume_name = IF path = "none" THEN NoName ELSE VolumeName(name)]
TeardownContainer(name, mount) ==
    [name |-> ContainerName(name, 0), project |-> name, image |-> Url("img1"),
     digest |-> "d1", env |-> "e1", mount |-> mount, status |-> "running"]
InitTeardown ==
    /\ containers = {TeardownContainer("p1", VolumeName("p1")), TeardownContainer("p2", NoName)}
    /\ volumes = {VolumeName("p1")}
    /\ images = {[tag |-> Url("img1"), digest |-> "d1"]}
    /\ projects = {TeardownRow(1, "p1", "alice", "/data"), TeardownRow(2, "p2", "bob", "none")}
    /\ participants = EmptyBag
    /\ databases = {[owner_login |-> "alice", database_name |-> DbName("alice"),
                     username |-> DbName("alice"), project_id |-> 1]}
    /\ tenantDbs = {DbName("alice")}
    /\ tenantUsers = {DbName("alice")}
    /\ tasks = {}
    /\ req = [s \in Slots |-> IdleReq]
    /\ nextId = 3
    /\ clock = 1
    /\ faults = 0
    /\ nreq = 0
    /\ SseInit

TeardownCall(kind) == [IdleReq EXCEPT !.kind = kind]
\* slot 1 holds the call that returned last, slot 2 the call before it
Returned(r, error, at) ==
    req' = [req EXCEPT ![2] = req[1],
                       ![1] = Return(FailedAt(r, at), IF error = "none" THEN "ok" ELSE "err",
                                     error)]

call_remove_container ==
    /\ nreq < MaxTeardownCalls
    /\ nreq' = nreq + 1
    /\ \E p \in ProjectNames, ok \in Outcomes :
         LET n == ContainerName(p, 0)
             r == [TeardownCall("remove_container") EXCEPT !.container_name = n] IN
         /\ Charge(ok)
         /\ containers' = remove_container(containers, n, ok)
         /\ Returned(r, remove_container_returns(remove_container_reply(containers, n, ok)),
                     IF ok THEN "none" ELSE "remove_container")
    /\ UNCHANGED <<volumes, images, Store, Tenant, tasks, nextId, clock, Sse>>

call_remove_volume_by_name ==
    /\ nreq < MaxTeardownCalls
    /\ nreq' = nreq + 1
    /\ \E p \in ProjectNames, ok \in Outcomes :
         LET v == VolumeName(p)
             r == [TeardownCall("remove_volume_by_name") EXCEPT !.volume_name = v] IN
         /\ Charge(ok)
         /\ volumes' = remove_volume_by_name(containers, volumes, v, ok)
         /\ Returned(r, remove_volume_by_name_returns(
                           remove_volume_reply(containers, volumes, v, ok)),
                     IF ok THEN "none" ELSE "remove_volume")
    /\ UNCHANGED <<containers, images, Store, Tenant, tasks, nextId, clock, Sse>>

call_execute_mariadb_deprovisioning ==
    /\ nreq < MaxTeardownCalls
    /\ nreq' = nreq + 1
    /\ \E u \in Users, o \in DeprovisioningOutcomes(0) :
         LET r == [TeardownCall("execute_mariadb_deprovisioning")
                     EXCEPT !.linked_database = DbName(u)] IN
         /\ execute_mariadb_deprovisioning(o, DbName(u), DbName(u))
         /\ faults' = faults + Cost(o = "ok")
         /\ Returned(r, IF o = "ok" THEN "none" ELSE "DEPROVISIONING_FAILED",
                     IF o = "ok" THEN "none" ELSE o)
    /\ UNCHANGED <<Runtime, Store, tasks, nextId, clock, Sse>>

NextTeardown ==
    \/ call_remove_container
    \/ call_remove_volume_by_name
    \/ call_execute_mariadb_deprovisioning

SpecTeardown == InitTeardown /\ [][NextTeardown]_vars

\* --------------------------------------------------------- crypto_service
\* a byte of a blob.  The bytes AES-256-GCM produces are kept symbolic: a
\* sealed byte is the plaintext byte under the pad of its key, nonce and
\* position, a tag byte authenticates the key, the nonce and all the bytes
Byte(kind, key, nonce, pos, byte, over) ==
    [kind |-> kind, key |-> key, nonce |-> nonce, pos |-> pos, byte |-> byte, over |-> over]
RawByte(b) == Byte("raw", <<>>, <<>>, 0, b, <<>>)

\* Aes256Gcm::encrypt(nonce, plaintext) : the sealed bytes, then the 16 tag bytes
cipher_encrypt(key, nonce, bytes) ==
    [i \in 1..(Len(bytes) + 16) |->
       IF i <= Len(bytes) THEN Byte("sealed", key, nonce, i, bytes[i], <<>>)
       ELSE Byte("tag", key, nonce, i - Len(bytes), 0, bytes)]
\* Aes256Gcm::decrypt(nonce, ciphertext) : the plaintext bytes, when the
\* ciphertext is what encrypt gives for them under this key and nonce
cipher_decrypt(key, nonce, ciphertext) ==
    IF Len(ciphertext) < 16 THEN [ok |-> FALSE, bytes |-> <<>>]
    ELSE LET bytes == [i \in 1..(Len(ciphertext) - 16) |-> ciphertext[i].byte] IN
         IF \A i \in 1..Len(ciphertext) : ciphertext[i] = cipher_encrypt(key, nonce, bytes)[i]
         THEN [ok |-> TRUE, bytes |-> bytes]
         ELSE [ok |-> FALSE, bytes |-> <<>>]

\* str::as_bytes and String::from_utf8, on an alphabet of a one-byte and a
\* two-byte character
Chars == {"a", "eacute"}
Utf8(c) == IF c = "a" THEN <<97>> ELSE <<195, 169>>
RECURSIVE as_bytes(_)
as_bytes(str) ==
    IF Len(str) = 0 THEN <<>> ELSE Utf8(str[1]) \o as_bytes(SubSeq(str, 2, Len(str)))
\* a decoding that takes every byte for a character
from_latin1(bytes) ==
    [ok |-> TRUE,
     value |-> [i \in 1..Len(bytes) |-> IF bytes[i] = 97 THEN "a" ELSE "eacute"]]
RECURSIVE from_utf8(_)
from_utf8(bytes) ==
    IF Len(bytes) = 0 THEN [ok |-> TRUE, value |-> <<>>]
    ELSE IF bytes[1] = 97
    THEN LET rest == from_utf8(SubSeq(bytes, 2, Len(bytes))) IN
         [ok |-> rest.ok, value |-> IF rest.ok THEN <<"a">> \o rest.value ELSE <<>>]
    ELSE IF bytes[1] = 195 /\ Len(bytes) >= 2 /\ bytes[2] = 169
    THEN LET rest == from_utf8(SubSeq(bytes, 3, Len(bytes))) IN
         [ok |-> rest.ok, value |-> IF rest.ok THEN <<"eacute">> \o rest.value ELSE <<>>]
    ELSE [ok |-> FALSE, value |-> <<>>]

CryptoOk(value) == [error |-> "none", value |-> value]
CryptoErr == [error |-> "INTERNAL", value |-> <<>>]

\* crypto_service::encrypt, with the nonce that generate_nonce(&mut OsRng) drew
encrypt(plaintext, key, nonce) == nonce \o cipher_encrypt(key, nonce, as_bytes(plaintext))

\* crypto_service::decrypt
decrypt(ciphertext_with_nonce, key) ==
    IF Len(ciphertext_with_nonce) < NONCE_SIZE THEN CryptoErr
    ELSE LET nonce_bytes == SubSeq(ciphertext_with_nonce, 1, NONCE_SIZE)
             ciphertext == SubSeq(ciphertext_with_nonce, NONCE_SIZE + 1,
                                  Len(ciphertext_with_nonce))
             plaintext_bytes == cipher_decrypt(key, nonce_bytes, ciphertext) IN
         IF ~plaintext_bytes.ok THEN CryptoErr
         ELSE LET string == from_utf8(plaintext_bytes.bytes) IN
              IF string.ok THEN CryptoOk(string.value) ELSE CryptoErr

\* the inputs: the plaintexts of at most MaxPlaintextLen characters, the two
\* 32-byte keys of the module's tests, two nonces
Plaintexts ==
    UNION {{[i \in 1..n |-> f[i]] : f \in [1..n -> Chars]} : n \in 0..MaxPlaintextLen}
Keys == {[i \in 1..32 |-> 66], [i \in 1..32 |-> 255]}
Nonces == {[i \in 1..NONCE_SIZE |-> RawByte(b)] : b \in {0, 7}}

\* an encryption, what happens to the blob at rest, and a decryption
NoCrypto ==
    [pc |-> "idle", kind |-> "crypto", plaintext |-> <<>>, key |-> <<>>, blob |-> <<>>,
     blob_is |-> "none", decrypt_key |-> <<>>, returned |-> CryptoErr]
InitCrypto ==
    /\ containers = {}
    /\ volumes = {}
    /\ images = {}
    /\ projects = {}
    /\ participants = EmptyBag
    /\ databases = {}
    /\ tenantDbs = {}
    /\ tenantUsers = {}
    /\ tasks = {}
    /\ req = [s \in Slots |-> NoCrypto]
    /\ nextId = 1
    /\ clock = 1
    /\ faults = 0
    /\ nreq = 0
    /\ SseInit

CryptoStep(r) ==
    /\ req' = [req EXCEPT ![1] = r]
    /\ UNCHANGED <<Runtime, Store, Tenant, tasks, nextId, clock, faults, nreq, Sse>>

encrypt_call ==
    /\ req[1].pc = "idle"
    /\ \E plaintext \in Plaintexts, key \in Keys, nonce \in Nonces :
         CryptoStep([req[1] EXCEPT !.pc = "at_rest", !.plaintext = plaintext, !.key = key,
                                   !.blob = encrypt(plaintext, key, nonce),
                                   !.blob_is = "intact"])

blob_truncated ==
    /\ req[1].pc = "at_rest"
    /\ req[1].blob_is = "intact"
    /\ \E n \in 0..(Len(req[1].blob) - 1) :
         CryptoStep([req[1] EXCEPT !.blob = SubSeq(@, 1, n), !.blob_is = "truncated"])

\* one byte of the blob takes another value
blob_altered ==
    /\ req[1].pc = "at_rest"
    /\ req[1].blob_is = "intact"
    /\ \E i \in 1..Len(req[1].blob) :
         CryptoStep([req[1] EXCEPT
                       !.blob = [@ EXCEPT ![i].byte = (@ + 1) % 256],
                       !.blob_is = IF i <= NONCE_SIZE THEN "nonce_altered"
                                   ELSE "ciphertext_altered"])

decrypt_call ==
    /\ req[1].pc = "at_rest"
    /\ \E key \in Keys :
         CryptoStep([req[1] EXCEPT !.pc = "done", !.decrypt_key = key,
                                   !.returned = decrypt(req[1].blob, key)])

NextCrypto == encrypt_call \/ blob_truncated \/ blob_altered \/ decrypt_call

SpecCrypto == InitCrypto /\ [][NextCrypto]_vars

\* ------------------------------------------------------ validation_service
\* characters of a name: letters of both cases, a digit, '-', '_', and a
\* character that takes two bytes
NameChars == {"a", "Z", "7", "-", "_", "eacute"}
is_ascii_alphanumeric(c) == c \in {"a", "z", "Z", "7"}
\* str::len counts bytes
RECURSIVE len(_)
len(name) ==
    IF Len(name) = 0 THEN 0
    ELSE (IF name[1] = "eacute" THEN 2 ELSE 1) + len(SubSeq(name, 2, Len(name)))
to_lowercase(name) == [i \in 1..Len(name) |-> IF name[i] = "Z" THEN "z" ELSE name[i]]

\* a length test that also refuses 63 bytes
longer_than_62(name) == len(name) >= 63
longer_than_63(name) == len(name) > 63

NameOk(value) == [error |-> "none", value |-> value]
NameErr == [error |-> "INVALID_PROJECT_NAME", value |-> <<>>]

\* validation_service::validate_project_name
validate_project_name(name) ==
    IF Len(name) = 0 THEN NameErr
    ELSE IF longer_than_63(name) THEN NameErr
    ELSE IF ~\A i \in 1..Len(name) : is_ascii_alphanumeric(name[i]) \/ name[i] = "-"
    THEN NameErr
    ELSE IF name[1] = "-" \/ name[Len(name)] = "-" THEN NameErr
    ELSE NameOk(to_lowercase(name))

\* the names: at most one character, a run of one character, at most one
\* character; runs around the limit and short ones
RunLengths == {0, 1} \cup ((MaxRun - 3)..MaxRun)
Edge == {<<>>} \cup {<<c>> : c \in NameChars}
Run(c, n) == [i \in 1..n |-> c]
Names == {h \o Run(c, n) \o t : h \in Edge, t \in Edge, c \in NameChars, n \in RunLengths}

NoValidation == [pc |-> "idle", kind |-> "validate_project_name", name |-> <<>>,
                 returned |-> NameErr]
InitValidation ==
    /\ containers = {}
    /\ volumes = {}
    /\ images = {}
    /\ projects = {}
    /\ participants = EmptyBag
    /\ databases = {}
    /\ tenantDbs = {}
    /\ tenantUsers = {}
    /\ tasks = {}
    /\ req = [s \in Slots |-> NoValidation]
    /\ nextId = 1
    /\ clock = 1
    /\ faults = 0
    /\ nreq = 0
    /\ SseInit

validate_project_name_call ==
    /\ req[1].pc = "idle"
    /\ \E name \in Names :
         req' = [req EXCEPT ![1] = [@ EXCEPT !.pc = "done", !.name = name,
                                             !.returned = validate_project_name(name)]]
    /\ UNCHANGED <<Runtime, Store, Tenant, tasks, nextId, clock, faults, nreq, Sse>>

NextValidation == validate_project_name_call

SpecValidation == InitValidation /\ [][NextValidation]_vars

\* the platform with two projects deployed from an image, one by each user,
\* and the manager and its workers as main starts them
DeployedRow(id, name, owner) ==
    [NoProject EXCEPT !.id = id, !.name = name, !.owner = owner,
                      !.container_name = ContainerName(name, 0), !.source = "direct",
                      !.source_url = Url("img1"), !.deployed_image_tag = Url("img1"),
                      !.deployed_image_digest = "d1", !.env_vars = encrypt_env_vars("e1")]
DeployedContainer(name) ==
    [name |-> ContainerName(name, 0), project |-> name, image |-> Url("img1"),
     digest |-> "d1", env |-> "e1", mount |-> NoName, status |-> "running"]
InitSse ==
    /\ containers = {DeployedContainer("p1"), DeployedContainer("p2")}
    /\ volumes = {}
    /\ images = {[tag |-> Url("img1"), digest |-> "d1"]}
    /\ projects = {DeployedRow(1, "p1", "alice"), DeployedRow(2, "p2", "bob")}
    /\ participants = EmptyBag
    /\ databases = {}
    /\ tenantDbs = {}
    /\ tenantUsers = {}
    /\ tasks = {}
    /\ req = [s \in Slots |-> IdleReq]
    /\ nextId = 3
    /\ clock = 1
    /\ faults = 0
    /\ nreq = 0
    /\ SseInit

\* one connection to a project's stream and the deployment events of the
\* project's running requests
NextStream ==
    \/ sse_project_handler(1)
    \/ subscribe(1)
    \/ create_sse_stream(1)
    \/ client_disconnects(1)
    \/ send_initial_project_state(1)
    \/ emit_deployment_stage

SpecStream == InitSse /\ [][NextStream]_vars

\* one connection at a time to the projects' streams, and the metrics collector
NextMetrics ==
    \/ sse_project_handler(1)
    \/ subscribe(1)
    \/ client_disconnects(1)
    \/ send_initial_project_state(1)
    \/ metrics_tick
    \/ get_projects_by_ids
    \/ sample_container_metrics

SpecMetrics == InitSse /\ [][NextMetrics]_vars

\* one connection at a time to the projects' streams, the events listener and
\* the shutdown of the server
NextListener ==
    \/ sse_project_handler(1)
    \/ subscribe(1)
    \/ client_disconnects(1)
    \/ send_initial_project_state(1)
    \/ stream_next
    \/ handle_docker_event
    \/ events_stream_fails
    \/ listener_try_recv
    \/ listener_reconnects
    \/ listener_shutdown
    \/ shutdown_signal

SpecListener == InitSse /\ [][NextListener]_vars

\* the platform once a client has connected to project 2 and left, and a client
\* is connected to project 1; both have been sent their initial state
InitWorkers ==
    /\ containers = {DeployedContainer("p1"), DeployedContainer("p2")}
    /\ volumes = {}
    /\ images = {[tag |-> Url("img1"), digest |-> "d1"]}
    /\ projects = {DeployedRow(1, "p1", "alice"), DeployedRow(2, "p2", "bob")}
    /\ participants = EmptyBag
    /\ databases = {}
    /\ tenantDbs = {}
    /\ tenantUsers = {}
    /\ tasks = {}
    /\ req = [s \in Slots |-> IdleReq]
    /\ nextId = 3
    /\ clock = 1
    /\ faults = 0
    /\ nreq = 0
    /\ project_channels = {[key |-> 1, ch |-> 2], [key |-> 2, ch |-> 1]}
    /\ creation_channels = {}
    /\ senders = [ch \in ChannelIds |-> IF ch \in {1, 2} THEN [sent |-> 2] ELSE NoSender]
    /\ clients = [c \in ClientIds |->
                    IF c = 1
                    THEN [IdleClient EXCEPT !.pc = "streaming", !.kind = "project",
                                            !.key = 1, !.ch = 2,
                                            !.container_name = ContainerName("p1", 0)]
                    ELSE IdleClient]
    /\ listener = [pc |-> "select", event |-> NoEvent, emits |-> <<>>, reconnects |-> 0]
    /\ collector = [pc |-> "select", active |-> {}, todo |-> {}]
    /\ cleaner = [pc |-> "select", todo |-> {}, cur |-> {}]
    /\ shutdown = FALSE

\* the events stream and the collector's timer deliver while every channel has
\* room for the events of the units of work in flight
Room == \A ch \in ChannelIds : senders[ch].sent + 2 <= MaxEvents
\* an event that is emitted to two channels, one that is emitted to one, one of
\* an action that is ignored and one of a container of no project
WorkerEvents ==
    {ev \in DockerEvents :
       \/ ev.action \in {"oom", "start", "destroy"} /\ ev.name.slashes = 1
                                                  /\ ev.name.rest = ContainerName("p1", 0)
       \/ ev.action = "die" /\ ev.name.rest = ContainerName("p9", 0)}
worker_stream_next == Room /\ StreamYields(WorkerEvents)
worker_metrics_tick == Room /\ metrics_tick

\* the three background workers and the shutdown of the server
NextWorkers ==
    \/ worker_stream_next
    \/ handle_docker_event
    \/ events_stream_fails
    \/ listener_try_recv
    \/ listener_reconnects
    \/ listener_shutdown
    \/ worker_metrics_tick
    \/ get_projects_by_ids
    \/ sample_container_metrics
    \/ collector_shutdown
    \/ cleanup_tick
    \/ retain_reads_count
    \/ retain_removes
    \/ retain_ends
    \/ cleaner_shutdown
    \/ shutdown_signal

\* every step a worker has begun comes to its end; select! polls its ready
\* branches in random order, so a shutdown branch that is ready again and
\* again is taken
WorkersFairness ==
    /\ WF_vars(handle_docker_event)
    /\ WF_vars(listener_try_recv)
    /\ WF_vars(listener_reconnects)
    /\ SF_vars(listener_shutdown)
    /\ WF_vars(get_projects_by_ids)
    /\ WF_vars(sample_container_metrics)
    /\ SF_vars(collector_shutdown)
    /\ WF_vars(retain_reads_count)
    /\ WF_vars(retain_removes)
    /\ WF_vars(retain_ends)
    /\ SF_vars(cleaner_shutdown)

SpecWorkers == InitWorkers /\ [][NextWorkers]_vars /\ WorkersFairness

\* the connections of two clients to the streams and the channel GC
CleanupClientStep(c) ==
    \/ sse_project_handler(c)
    \/ sse_creation_handler(c)
    \/ subscribe(c)
    \/ client_disconnects(c)
    \/ stream_closed(c)

NextCleanup ==
    \/ \E c \in ClientIds : CleanupClientStep(c)
    \/ cleanup_tick
    \/ retain_reads_count
    \/ retain_removes
    \/ retain_ends

SpecCleanup == InitSse /\ [][NextCleanup]_vars


\* the subscriptions of a client to project and creation streams next to the
\* emissions of running requests, with their per-channel cleanups, and the
\* channel GC
NextSubscribe ==
    \/ CleanupClientStep(1)
    \/ emit_deployment_stage
    \/ emit_creation_deployment_stage
    \/ cleanup_tick
    \/ retain_reads_count
    \/ retain_removes
    \/ retain_ends

SpecSubscribe == InitSse /\ [][NextSubscribe]_vars

\* ------------------------------------------------------------------ claims
Row(id) == CHOOSE p \in projects : p.id = id
HasRow(id) == \E p \in projects : p.id = id
RunningIn(cs, n) == \E c \in cs : c.name = n /\ c.status = "running"
ProjectIsRunning(name) == \E c \in containers : c.project = name /\ c.status = "running"
Done(r, kinds) == r.kind \in kinds /\ r.pc = "done"

\* C1: a deploy whose health wait saw no running container in 10 polls ends in
\* failure: the request returns an error, a Failed event and no Completed event
\* were emitted, no project row was inserted, and (every removal call having
\* succeeded) the container, its volume and the image are gone.
C1_HealthFailureFailsDeploy ==
    \A s \in Slots :
      LET r == req[s] IN
      (Done(r, {"deploy"}) /\ r.health = "failed") =>
        /\ r.result = "err"
        /\ EmittedFailed(r, "Health check")
        /\ ~Emitted(r, "completed")
        /\ ~\E p \in projects : p.name = r.project_name
        /\ (faults = 0 =>
              /\ ~ContainerExists(r.container_name)
              /\ r.volume_name \notin volumes
              /\ ~ImagePresent(ImageId(r.deployed_image_digest)))

C1_Witness ==
    \E s \in Slots : Done(req[s], {"deploy"}) /\ req[s].health = "failed"

\* C2: under concurrent deploys the store never holds two project rows with
\* the same owner, nor two with the same name.
C2_OneProjectPerOwnerAndName ==
    \A p, q \in projects : p # q => (p.owner # q.owner /\ p.name # q.name)

C2_Witness ==
    /\ \A s \in Slots : Done(req[s], {"deploy"})
    /\ \E s, t \in Slots : /\ s # t
                           /\ req[s].user = req[t].user
                           /\ req[s].project_name # req[t].project_name
                           /\ req[s].result = "ok"
                           /\ req[t].result = "ok"

\* C3: when a blue-green update of a project with a running container returns
\* an error, then once the detached cleanups have run the project row still
\* names the pre-update container, that container exists, and the new
\* container does not.
C3_FailedUpdateKeepsOldContainer ==
    \A s \in Slots :
      LET r == req[s] IN
      (Done(r, BlueGreenKinds) /\ r.result = "err" /\ r.old_was_running /\ tasks = {}) =>
        /\ HasRow(r.project.id)
        /\ Row(r.project.id).container_name = r.old_container_name
        /\ ContainerExists(r.old_container_name)
        /\ (r.new_container_name \notin {NoName, r.old_container_name}
              => ~ContainerExists(r.new_container_name))

C3_Witness ==
    \E s \in Slots :
      /\ Done(req[s], BlueGreenKinds) /\ req[s].result = "err" /\ req[s].old_was_running
      /\ req[s].failed_at \in {"meta", "meta_image", "meta_source", "env_meta", "env_meta_vars"}
      /\ tasks = {}

\* C4: the metadata swap of a blue-green update is atomic: the project row
\* holds either all pre-update or all post-update values of container_name,
\* deployed_image_tag, deployed_image_digest (and source_url for a direct
\* project) for an image update or rebuild, and of container_name and env_vars
\* for an env update.
C4_MetadataSwapAtomic ==
    \A s \in Slots :
      LET r == req[s] IN
      (r.kind \in BlueGreenKinds /\ r.health = "passed" /\ HasRow(r.project.id)) =>
        LET row == Row(r.project.id)
            old == r.project IN
        IF r.kind = "update_env"
        THEN \/ /\ row.container_name = old.container_name
                /\ row.env_vars = old.env_vars
             \/ /\ row.container_name = r.new_container_name
                /\ row.env_vars = encrypt_env_vars(r.env_vars)
        ELSE \/ /\ row.container_name = old.container_name
                /\ row.deployed_image_tag = old.deployed_image_tag
                /\ row.deployed_image_digest = old.deployed_image_digest
                /\ row.source_url = old.source_url
             \/ /\ row.container_name = r.new_container_name
                /\ row.deployed_image_tag = r.new_image_tag
                /\ row.deployed_image_digest = r.new_image_digest
                /\ (old.source = "direct" => row.source_url = r.new_image_tag)

C4_Witness ==
    \E s \in Slots :
      /\ Done(req[s], BlueGreenKinds) /\ req[s].result = "err"
      /\ req[s].failed_at \in {"meta_image", "meta_source", "env_meta_vars"}

\* C5: a deploy with create_database that fails after the tenant database was
\* provisioned (the Database row insert, the participant insert or the commit
\* fails) leaves no tenant database and no tenant user behind; and in every
\* quiescent state an owner has a Database row iff that owner's tenant
\* database and user exist.
C5_TenantDatabaseFollowsRow ==
    /\ \A s \in Slots :
         LET r == req[s] IN
         (Done(r, {"deploy"}) /\ r.create_database
            /\ r.failed_at \in {"insert_database", "participants", "commit"}) =>
           (DbName(r.user) \notin tenantDbs /\ DbName(r.user) \notin tenantUsers)
    /\ Quiescent =>
         \A o \in Users :
           (\E d \in databases : d.owner_login = o)
             <=> (DbName(o) \in tenantDbs /\ DbName(o) \in tenantUsers)

C5_Witness ==
    \E s \in Slots :
      /\ Done(req[s], {"deploy"}) /\ req[s].create_database
      /\ req[s].failed_at \in {"participants", "commit"}

\* C6: a request to change a project made by a user who is only a participant
\* of it (neither its owner nor an admin) is rejected when the project row is
\* looked up, before anything is changed.
ChangeKinds ==
    BlueGreenKinds \cup ProjectActions \cup {"purge", "add_participant", "remove_participant"}
ParticipantOnly(r) ==
    /\ ~r.is_admin
    /\ BagIn(<<r.project_id, r.user>>, participants)
    /\ HasRow(r.project_id)
    /\ Row(r.project_id).owner # r.user
C6_ParticipantCannotChangeProject ==
    \A s \in Slots :
      LET r == req[s] IN
      (r.kind \in ChangeKinds /\ ParticipantOnly(r)) =>
        (r.pc = "done" /\ r.result = "err" /\ r.error = "NOT_FOUND" /\ r.project = NoProject)

C6_Witness ==
    \E s \in Slots :
      /\ req[s].kind \in {"purge", "add_participant", "remove_participant"}
      /\ ParticipantOnly(req[s])
      /\ req[s].error = "NOT_FOUND"

\* C7: while a blue-green update of a project whose old container was running
\* is in flight, a running container of the project exists; and a step of the
\* update that stops or removes the old container is taken only when the new
\* container has passed the health wait and the project row names it, and it
\* leaves a running container of the project.
BlueGreenLive(r) ==
    r.kind \in BlueGreenKinds /\ r.pc \notin {"idle", "done"} /\ r.old_was_running
C7_NoDowntime ==
    [][\A s \in Slots :
         BlueGreenLive(req[s]) =>
           /\ ProjectIsRunning(req[s].project.name)
           /\ (/\ req'[s] # req[s]
               /\ RunningIn(containers, req[s].old_container_name)
               /\ ~RunningIn(containers', req[s].old_container_name))
              => /\ req[s].health = "passed"
                 /\ HasRow(req[s].project.id)
                 /\ Row(req[s].project.id).container_name = req[s].new_container_name
                 /\ \E c \in containers' :
                      c.project = req[s].project.name /\ c.status = "running"]_vars

C7_Witness ==
    \E s \in Slots :
      /\ Done(req[s], BlueGreenKinds) /\ req[s].result = "ok" /\ req[s].old_was_running
      /\ ~ContainerExists(req[s].old_container_name)
      /\ ContainerRunning(req[s].new_container_name)

\* C8: after a successful image update or rebuild the image removed in the
\* background is the one the project ran before, and the image the row records
\* is present: deployed_image_tag still names deployed_image_digest.
C8_DeployedImageKept ==
    \A s \in Slots :
      LET r == req[s] IN
      (Done(r, {"update_image", "rebuild"}) /\ r.result = "ok" /\ HasRow(r.project.id)) =>
        LET row == Row(r.project.id) IN
        /\ r.old_image_to_cleanup = r.project.deployed_image_tag
        /\ ImagePresent(ImageId(row.deployed_image_digest))
        /\ get_image_digest(row.deployed_image_tag) = row.deployed_image_digest

C8_Witness ==
    \E s \in Slots :
      /\ Done(req[s], {"update_image"}) /\ req[s].result = "ok"
      /\ req[s].new_image_tag # req[s].project.deployed_image_tag
      /\ tasks = {}

\* C9: in every quiescent state each project row with persistent_volume_path
\* set has its runtime volume volume_name.
C9_VolumeOfEveryRow ==
    Quiescent =>
      \A p \in projects : p.persistent_volume_path # "none" => p.volume_name \in volumes

C9_Witness ==
    /\ Quiescent
    /\ \E s \in Slots :
         /\ Done(req[s], BlueGreenKinds) /\ req[s].failed_at = "create"
         /\ req[s].project.persistent_volume_path # "none"
         /\ req[s].project.volume_name \in volumes

\* C10: a deploy whose commit fails removes the container, its volume and the
\* image it created.
C10_CommitFailureRollsBack ==
    \A s \in Slots :
      LET r == req[s] IN
      (Done(r, {"deploy"}) /\ r.failed_at = "commit") =>
        /\ ~ContainerExists(r.container_name)
        /\ r.volume_name \notin volumes
        /\ ~ImagePresent(r.image_tag)

C10_Witness ==
    \E s \in Slots : Done(req[s], {"deploy"}) /\ req[s].failed_at = "commit"

\* C11: a deploy or blue-green update dropped by the request timeout after it
\* created its container and before its store commit leaves, once the detached
\* tasks have run, no container and no volume it created and no project row
\* naming that container.
CreatedBefore(r) ==
    IF r.kind = "deploy"
    THEN r.aborted_at \in {"health", "health_rollback", "persist", "provision",
                           "insert_database", "deprovision", "participants", "commit"}
    ELSE r.aborted_at = "health"
TimedOut(r) ==
    Done(r, {"deploy"} \cup BlueGreenKinds) /\ r.error = "REQUEST_TIMEOUT"
C11_TimeoutReclaims ==
    \A s \in Slots :
      (TimedOut(req[s]) /\ CreatedBefore(req[s]) /\ tasks = {}) =>
        /\ ~ContainerExists(HealthTarget(req[s]))
        /\ (req[s].kind = "deploy" /\ req[s].volume_name # NoName
              => req[s].volume_name \notin volumes)
        /\ \A p \in projects : p.container_name # HealthTarget(req[s])

C11_Witness ==
    \E s \in Slots :
      /\ TimedOut(req[s]) /\ req[s].kind = "deploy" /\ req[s].aborted_at = "commit"
      /\ tasks = {} /\ projects = {}

\* C12: when two blue-green updates of one project that ran concurrently have
\* both returned and their detached tasks have run, the row names an existing
\* container, that container runs with the digest and the variables the row
\* records, and the project has no other container.
BothReturned ==
    /\ \A s \in Slots : Done(req[s], BlueGreenKinds) /\ req[s].project # NoProject
    /\ req[1].project.id = req[2].project.id
    /\ req[1].old_container_name = req[2].old_container_name
    /\ \A s \in Slots : req[s].new_container_name # NoName
    /\ tasks = {}
RowMatchesRuntime(p) ==
    /\ \E c \in containers :
         /\ c.name = p.container_name
         /\ c.status = "running"
         /\ c.digest = p.deployed_image_digest
         /\ c.env = get_decrypted_env_vars(p.env_vars)
    /\ \A c \in containers : c.project = p.name => c.name = p.container_name
C12_ConcurrentUpdatesKeepInvariants ==
    BothReturned => (HasRow(req[1].project.id) /\ RowMatchesRuntime(Row(req[1].project.id)))

C12_Witness ==
    /\ BothReturned
    /\ \A s \in Slots : req[s].result = "ok"
    /\ req[1].new_container_name # req[2].new_container_name

\* C13: a deploy that violates a precondition (the owner already has a project,
\* the name is taken, a database is requested and the owner has one, the
\* participants include the owner) leaves the preconditions check with its
\* error, and neither its submission nor its rejection changes the runtime,
\* the store, the tenant server or the set of detached tasks.
ViolatesPrecondition(r) ==
    \/ \E p \in projects : p.owner = r.user
    \/ \E p \in projects : p.name = r.project_name
    \/ r.create_database /\ \E d \in databases : d.owner_login = r.user
    \/ \E i \in DOMAIN r.participants : r.participants[i] = r.user
PreconditionErrors ==
    {"OWNER_ALREADY_EXISTS", "PROJECT_NAME_TAKEN", "DATABASE_ALREADY_EXISTS",
     "OWNER_CANNOT_BE_PARTICIPANT"}
C13_RejectedDeployHasNoEffect ==
    [][\A s \in Slots :
         /\ (req[s].pc = "idle" \/ req[s].pc = "done") /\ req'[s].pc = "preconditions"
              => UNCHANGED <<Runtime, Store, Tenant, tasks>>
         /\ (req[s].pc = "preconditions" /\ req'[s] # req[s] /\ ViolatesPrecondition(req[s]))
              => /\ req'[s].pc = "done"
                 /\ req'[s].result = "err"
                 /\ req'[s].error \in PreconditionErrors
                 /\ UNCHANGED <<Runtime, Store, Tenant, tasks>>]_vars

C13_Witness ==
    \E s \in Slots :
      /\ Done(req[s], {"deploy"}) /\ req[s].error = "PROJECT_NAME_TAKEN"
      /\ \E p \in projects : p.name = req[s].project_name /\ p.owner # req[s].user
      /\ ~Emitted(req[s], "pulling_image")

\* C14: a deploy, image update or rebuild that has emitted Started and returns
\* an error has emitted exactly one Failed event, which names a stage and is
\* on the channel of its Started event.
OrchestratedKinds == {"deploy", "update_image", "rebuild"}
FailedEvents(r) == {i \in 1..Len(r.events) : r.events[i].stage = "failed"}
StartedChannel(r) == r.events[1].chan
ReturnedError(r) ==
    Done(r, OrchestratedKinds) /\ r.result = "err" /\ Emitted(r, "started")
C14_OneFailedEventPerError ==
    \A s \in Slots :
      ReturnedError(req[s]) =>
        /\ Cardinality(FailedEvents(req[s])) = 1
        /\ \A i \in FailedEvents(req[s]) :
             /\ req[s].events[i].at # ""
             /\ req[s].events[i].chan = StartedChannel(req[s])

C14_Witness ==
    \E s \in Slots :
      /\ ReturnedError(req[s]) /\ req[s].kind = "update_image"
      /\ Cardinality(FailedEvents(req[s])) = 1
      /\ EmittedFailed(req[s], "Health check")

\* C15: a direct deploy without database that passed its health wait and
\* returned success has emitted, all on the owner's creation channel, exactly
\* the stages started, validating_input, pulling_image, image_pulled,
\* scanning_image, image_scanned, getting_image_digest, creating_container,
\* container_created, waiting_health_check, health_check_passed, completed,
\* in this order and each once.
DirectDeployStages ==
    <<"started", "validating_input", "pulling_image", "image_pulled",
      "scanning_image", "image_scanned", "getting_image_digest",
      "creating_container", "container_created", "waiting_health_check",
      "health_check_passed", "completed">>
StagesOf(r) == [i \in 1..Len(r.events) |-> r.events[i].stage]
SucceededDirectDeploy(r) ==
    /\ Done(r, {"deploy"}) /\ r.result = "ok" /\ r.health = "passed"
    /\ r.image_url # "none" /\ ~r.create_database
C15_DirectDeployStageSequence ==
    \A s \in Slots :
      SucceededDirectDeploy(req[s]) =>
        /\ StagesOf(req[s]) = DirectDeployStages
        /\ \A i \in 1..Len(req[s].events) :
             req[s].events[i].chan = <<"creation", req[s].user>>

C15_Witness ==
    \E s \in Slots :
      /\ SucceededDirectDeploy(req[s])
      /\ HasRow(req[s].orch_project_id)
      /\ req[s].events[Len(req[s].events)].stage = "completed"
      /\ \A i \in 1..Len(DirectDeployStages) : Emitted(req[s], DirectDeployStages[i])

\* C16: a run that emitted Completed knowing its project id emitted it on the
\* project's channel: a deploy on the owner's creation channel and on the new
\* project's channel, an image update or rebuild on the project channel on
\* which its other stages went.
CompletedOn(r, chan) ==
    \E i \in 1..Len(r.events) : r.events[i].stage = "completed" /\ r.events[i].chan = chan
CompletedRun(r) ==
    Done(r, OrchestratedKinds) /\ Emitted(r, "completed") /\ r.orch_project_id # 0
C16_CompletedOnProjectChannel ==
    \A s \in Slots :
      CompletedRun(req[s]) =>
        /\ CompletedOn(req[s], <<"project", req[s].orch_project_id>>)
        /\ (req[s].kind = "deploy" => CompletedOn(req[s], <<"creation", req[s].user>>))

C16_Witness ==
    \E s \in Slots :
      /\ CompletedRun(req[s]) /\ req[s].kind \in {"update_image", "rebuild"}
      /\ req[s].result = "ok"
      /\ StartedChannel(req[s]) = <<"project", req[s].orch_project_id>>

\* C17: the step on which a direct deploy returns IMAGE_SCAN_FAILED has emitted
\* image_pulled and scanning_image before, emits Failed with stage "Image scan",
\* removes the pulled image or leaves the image store as it was (the removal
\* is best-effort), creates no container and no volume and inserts no row; the
\* deploy has not reached the container creation.
ScanFails(r, rn) ==
    /\ r.kind = "deploy" /\ r.image_url # "none" /\ r.pc = "scan"
    /\ rn.pc = "done" /\ rn.error = "IMAGE_SCAN_FAILED"
C17_ScanFailureRollsBack ==
    [][\A s \in Slots :
         ScanFails(req[s], req'[s]) =>
           /\ Emitted(req[s], "image_pulled")
           /\ Emitted(req'[s], "scanning_image")
           /\ EmittedFailed(req'[s], "Image scan")
           /\ req'[s].events[Len(req'[s].events)].stage = "failed"
           /\ ~Emitted(req'[s], "creating_container")
           /\ images' \in {images, WithoutImage(containers, images, Url(req[s].image_url))}
           /\ UNCHANGED <<containers, volumes, Store, Tenant, tasks>>]_vars

C17_Witness ==
    \E s \in Slots :
      /\ Done(req[s], {"deploy"}) /\ req[s].error = "IMAGE_SCAN_FAILED"
      /\ req[s].image_url # "none"
      /\ ~ImagePresent(Url(req[s].image_url))
      /\ containers = {} /\ projects = {}

\* C18: when the pulled or built image has the digest the project row records,
\* the image update or rebuild that gets past the digest retrieval responds
\* no_change; that step creates no container, emits no container_created and
\* writes no row, and for a rebuild the newly built tag is gone after it.
SameDigest(r) ==
    /\ r.kind \in {"update_image", "rebuild"} /\ r.pc = "bg_digest"
    /\ \E i \in images : i.tag = r.image_tag /\ i.digest = r.project.deployed_image_digest
NoChangeStep(r, rn) ==
    /\ rn.pc = "done" /\ rn.result = "no_change"
    /\ ~Emitted(rn, "creating_container") /\ ~Emitted(rn, "container_created")
    /\ UNCHANGED <<containers, volumes, Store, Tenant, tasks>>
C18_NoChangeRemovesBuiltImage ==
    [][\A s \in Slots :
         (SameDigest(req[s]) /\ req'[s] # req[s] /\ req'[s].result # "err") =>
           /\ NoChangeStep(req[s], req'[s])
           /\ IF req[s].kind = "rebuild"
              THEN \A i \in images' : i.tag # req[s].image_tag
              ELSE images' = images]_vars

\* C18 (amended): as above, except that the removal of the newly built tag is
\* best-effort: after the step the tag is gone, or the runtime's removal call
\* failed and the image store is as it was.
C18_NoChangeShortCircuit ==
    [][\A s \in Slots :
         (SameDigest(req[s]) /\ req'[s] # req[s] /\ req'[s].result # "err") =>
           /\ NoChangeStep(req[s], req'[s])
           /\ IF req[s].kind = "rebuild"
              THEN images' \in {images, WithoutImage(containers, images, req[s].image_tag)}
              ELSE images' = images]_vars

C18_Witness ==
    \E s \in Slots :
      /\ Done(req[s], {"rebuild"}) /\ req[s].result = "no_change"
      /\ ~ImagePresent(req[s].image_tag)
      /\ HasRow(req[s].project.id)
      /\ Row(req[s].project.id).container_name = req[s].old_container_name

\* C19: the step that ends an env update in success leaves a running container
\* named <prefix>-<project>-<unix_seconds>, the project row's container_name is
\* that name, the row's env_vars decrypt to the submitted variables, and the
\* old container is no longer in the runtime.
EnvUpdateSucceeds(r, rn) ==
    r.kind = "update_env" /\ r.pc = "cleanup" /\ rn.pc = "done" /\ rn.result = "ok"
EnvUpdateSwapped(r) ==
    /\ \E ts \in 0..MaxClock : r.new_container_name = ContainerName(r.project.name, ts)
    /\ RunningIn(containers', r.new_container_name)
    /\ \E p \in projects' :
         /\ p.id = r.project.id
         /\ p.container_name = r.new_container_name
         /\ get_decrypted_env_vars(p.env_vars) = r.env_vars
RowsNameContainers == \A p \in projects : ContainerExists(p.container_name)
ContainersNamedByRows == \A c \in containers : \E p \in projects : p.container_name = c.name
C20_RowsAndContainersAgree ==
    (\A s \in Slots : ~InFlight(s)) => RowsNameContainers /\ ContainersNamedByRows

C20_Witness ==
    /\ nreq = MaxHealthyRequests
    /\ Done(req[1], {"update_env"}) /\ req[1].result = "ok"
    /\ req[1].old_container_name = ContainerName("p1", 1)
    /\ req[1].new_container_name = ContainerName("p1", 2)
    /\ projects # {} /\ RowsNameContainers
    /\ containers # {} /\ ContainersNamedByRows

\* the position a receiver that started at position start has reached after
\* the items got: a value moves it by one and must be the next position, a
\* warning of n missed messages moves it by n; -1 when the items do not fit
RECURSIVE PositionAfter(_, _)
PositionAfter(got, start) ==
    IF got = <<>> THEN start
    ELSE LET before == PositionAfter(SubSeq(got, 1, Len(got) - 1), start)
             item == got[Len(got)] IN
         IF before < 0 THEN -1
         ELSE IF item < 0 THEN before - item
         ELSE IF item = before + 1 THEN item
         ELSE -1
Polls(c) == clients[c].pc = "streaming" /\ Len(clients'[c].got) = Len(clients[c].got) + 1
Behind(c) == senders[clients[c].ch].sent - clients[c].next
\* one poll of a receiver that is behind by more than limit values: the stream
\* goes on, its new item is the warning with the number of values that are no
\* longer retained, and it resumes at the oldest retained value
PollWarns(c, limit) ==
    LET r == clients[c]
        rn == clients'[c]
        missed == Behind(c) - ChannelLen(BROADCAST_CAPACITY) IN
    Polls(c) /\ Behind(c) > limit =>
        /\ rn.pc = "streaming" /\ rn.ch = r.ch
        /\ rn.got = Append(r.got, 0 - missed)
        /\ rn.next = r.next + missed
        /\ senders'[r.ch].sent - rn.next = ChannelLen(BROADCAST_CAPACITY)
PollDelivers(c, limit) ==
    Polls(c) /\ Behind(c) <= limit =>
        clients'[c].got = Append(clients[c].got, clients[c].next + 1)
Accounted ==
    \A c \in ClientIds :
      clients[c].pc = "streaming" =>
        PositionAfter(clients[c].got, clients[c].start) = clients[c].next

\* C21 (as stated): a subscriber that is behind by more than the channel
\* capacity BROADCAST_CAPACITY when it polls is not disconnected, receives one
\* warning with the exact number of events it missed and continues with the
\* oldest retained event; the missed events are never delivered to it.
C21_LagBeyondCapacityWarns ==
    [][\A c \in ClientIds : PollWarns(c, BROADCAST_CAPACITY)]_vars

\* C21 (amended): the same, for a subscriber that is behind by more than the
\* number of events the channel retains, which is BROADCAST_CAPACITY rounded up
\* to the next power of two; a subscriber behind by no more than that receives
\* the next event, and at every moment the items a subscriber has received
\* account for every position between its subscription and its cursor, each
\* one either delivered once, in order, or counted in a warning.
C21_LagBeyondRetainedWarns ==
    /\ []Accounted
    /\ [][\A c \in ClientIds :
            /\ PollWarns(c, ChannelLen(BROADCAST_CAPACITY))
            /\ PollDelivers(c, ChannelLen(BROADCAST_CAPACITY))]_vars

C21_Witness ==
    \E c \in ClientIds :
      /\ clients[c].pc = "streaming"
      /\ \E i \in 1..(Len(clients[c].got) - 1) :
           clients[c].got[i] < 0 /\ clients[c].got[i + 1] > 0

\* a client holds a live receiver of the project's stream
LiveSubscriber(id) ==
    \E c \in ClientIds :
      clients[c].pc = "streaming" /\ clients[c].kind = "project" /\ clients[c].key = id
TickReads == collector.pc = "select" /\ collector' # collector
Samples(id) ==
    /\ collector.pc = "sample"
    /\ \E p \in collector.todo : p.id = id /\ collector'.todo = collector.todo \ {p}
\* the channels of the registry other than the project's keep what they sent
OnlyEmitsTo(id) ==
    \A e \in project_channels : e.key # id => senders'[e.ch] = senders[e.ch]

\* C22: the active set a metrics tick reads holds only projects with a live
\* per-project subscriber at that moment; the collector samples a container
\* and emits a metrics event only for a project of the active set its tick
\* read, and a sample step emits on no other project's channel.
C22_MetricsOnlyForSubscribed ==
    [][/\ TickReads => \A id \in collector'.active : LiveSubscriber(id)
       /\ \A id \in ProjectIds :
            Samples(id) => id \in collector.active /\ OnlyEmitsTo(id)]_vars

C22_Witness ==
    /\ collector.pc = "select" /\ collector.active = {1}
    /\ clients[1].pc = "streaming" /\ clients[1].key = 1
    /\ clients[1].start = 0 /\ clients[1].initial = "status"
    /\ senders[clients[1].ch].sent = 1
    /\ Entry(project_channels, 2) # {} /\ ~LiveSubscriber(2)

\* a step of the listener that handles the event it took from the stream
HandlesEvent == listener.pc = "handle" /\ listener'.pc = "select"
\* the project the handled event's container resolves to: the name without its
\* leading '/' is a row's container_name and the lookup succeeded
ResolvedProjects ==
    {p \in projects : /\ listener.event.name.rest # NoName
                      /\ p.container_name = listener.event.name.rest
                      /\ faults' = faults}
OnProject(p, status) == [chan |-> "project", project |-> p.id, status |-> status]
OnAdmin(p, status) == [chan |-> "admin", project |-> p.id, status |-> status]
ExpectedCalls(action, p) ==
    CASE action \in {"kill", "oom"} -> <<OnProject(p, "dead"), OnAdmin(p, "dead")>>
      [] action = "create" -> <<OnProject(p, "created")>>
      [] action = "restart" -> <<OnProject(p, "restarting")>>
      [] action \in {"start", "unpause"} -> <<OnProject(p, "running")>>
      [] action \in {"stop", "die"} -> <<OnProject(p, "exited")>>
      [] action = "pause" -> <<OnProject(p, "paused")>>
      [] OTHER -> <<>>

\* C23: handling a runtime event, the listener emits, for kill or oom on a
\* container whose name without its leading '/' resolves to a project,
\* container_status dead on the project's channel and then on the admin
\* channel; for create, restart, start, unpause, stop, die and pause the mapped
\* status on the project's channel only; for any other action or a container
\* that resolves to no project it emits nothing and no channel changes.  An
\* emission on a project channel with a live receiver adds one event to it.
C23_EventsMappedAndEmitted ==
    [][HandlesEvent =>
         /\ \A p \in ResolvedProjects :
              /\ listener'.emits = ExpectedCalls(listener.event.action, p)
              /\ (/\ listener'.emits # <<>>
                  /\ Entry(project_channels, p.id) # {}
                  /\ receiver_count(ChannelOf(project_channels, p.id)) > 0)
                 => senders'[ChannelOf(project_channels, p.id)].sent
                      = senders[ChannelOf(project_channels, p.id)].sent + 1
         /\ ResolvedProjects = {} => listener'.emits = <<>>
         /\ listener'.emits = <<>> =>
              senders' = senders /\ project_channels' = project_channels]_vars

C23_Witness ==
    /\ listener.pc = "select"
    /\ listener.emits = <<[chan |-> "project", project |-> 1, status |-> "dead"],
                          [chan |-> "admin", project |-> 1, status |-> "dead"]>>
    /\ clients[1].pc = "streaming" /\ clients[1].key = 1
    /\ clients[1].start = 0 /\ clients[1].initial = "status"
    /\ senders[clients[1].ch].sent = 1

Stopped(w) == w.pc = "stopped"
AllStopped == Stopped(listener) /\ Stopped(collector) /\ Stopped(cleaner)
\* a step taken by a worker that is already stopped
StoppedWorkerActs ==
    \/ Stopped(listener) /\ listener' # listener
    \/ Stopped(collector) /\ collector' # collector
    \/ Stopped(cleaner) /\ cleaner' # cleaner
    \/ AllStopped /\ <<project_channels, creation_channels, senders>>'
                       # <<project_channels, creation_channels, senders>>

\* C25: once the shutdown notification is broadcast the events listener, the
\* metrics collector and the channel GC each eventually stop, the listener
\* also from its reconnect wait; a worker stops only after the notification
\* and a stopped worker takes no further step.
C25_WorkersStopAfterShutdown ==
    /\ shutdown ~> AllStopped
    /\ (shutdown /\ listener.pc = "sleep") ~> Stopped(listener)
    /\ []((Stopped(listener) \/ Stopped(collector) \/ Stopped(cleaner)) => shutdown)
    /\ [][~StoppedWorkerActs]_vars

C25_Witness ==
    /\ shutdown /\ AllStopped
    /\ listener.reconnects >= 1
    /\ collector.active = {1} /\ senders[2].sent > 2
    /\ Entry(project_channels, 2) = {}

ListenerMoves == listener' # listener
\* C26: when the events stream has failed or ended and no shutdown is notified
\* the listener goes to its wait, and from its wait it always opens a new
\* stream, as often as the stream breaks; it stops only when shutdown has been
\* notified, and an event of a stream opened after a break is translated and
\* emitted like any other.
C26_ListenerReconnects ==
    /\ [](Stopped(listener) => shutdown)
    /\ (listener.pc = "check" /\ ~shutdown) ~> (listener.pc = "select" \/ shutdown)
    /\ listener.pc = "sleep" ~> listener.pc = "select"
    /\ [][/\ listener.pc = "check" /\ ~shutdown /\ ListenerMoves
               => listener'.pc = "sleep"
          /\ listener.pc = "sleep" /\ ListenerMoves
               => /\ listener'.pc = "select"
                  /\ listener'.reconnects = listener.reconnects + 1
          /\ HandlesEvent /\ listener.reconnects > 0
               => \A p \in ResolvedProjects :
                    /\ listener'.emits = ExpectedCalls(listener.event.action, p)
                    /\ container_status_of(listener.event.action) # "none"
                         => listener'.emits # <<>>]_vars

C26_Witness ==
    /\ ~shutdown
    /\ listener.pc = "select" /\ listener.reconnects = MaxReconnects
    /\ listener.emits = <<OnProject(DeployedRow(1, "p1", "alice"), "running")>>
    /\ senders[2].sent > 2

\* the entries a step of the GC takes out of the registry it retains
RemovedEntries == RetainedMap \ (IF cleaner.pc = "projects" THEN project_channels'
                                 ELSE creation_channels')
GcRemoves == cleaner.cur # {} /\ cleaner'.cur = {}

PersistRollback(s) == req[s].pc = "persist_rollback" /\ req'[s] # req[s]
HealthRollback(s) == req[s].pc = "health_rollback" /\ req'[s] # req[s]

\* C27: when the persistence step of a deploy has failed, the SQL transaction
\* is aborted before the container, its volume and the image are removed: the
\* transaction is no longer open when the removals are made.
C27_TransactionAbortedFirst ==
    [][\A s \in Slots : PersistRollback(s) => ~InTx(req[s])]_vars

\* the persistence failed after the project row was inserted, the container is
\* still there and the transaction with the row is still open
C27_Witness ==
    \E s \in Slots :
      /\ req[s].pc = "persist_rollback"
      /\ req[s].failed_at = "participants"
      /\ req[s].tx.project # NoProject
      /\ InTx(req[s])
      /\ ContainerExists(req[s].container_name)

\* a removal call of the step has failed
RemovalFailed == faults' = faults + 1
\* C28: a removal that fails in a rollback does not change how the request
\* goes on: after the rollback of a failed persistence it returns the error
\* that caused the rollback, after the rollback of a failed health wait the
\* handler goes on as it does when every removal succeeds; and the image is
\* still removed when only the removal of the volume failed.
C28_RollbackFailureNotPropagated ==
    [][\A s \in Slots :
         /\ PersistRollback(s)
              => /\ req'[s].pc = "done" /\ req'[s].result = "err"
                 /\ req'[s].error = req[s].error
         /\ HealthRollback(s) /\ RemovalFailed
              => /\ req'[s].pc = "persist"
                 /\ (~ContainerExists(req[s].container_name)' /\ req[s].volume_name \in volumes')
                      => ~RemoveImageOk(containers', images, ImageId(req[s].deployed_image_digest))
                         \/ images' # images]_vars

\* a deploy that returned the error of a removal made by its health rollback
C28_Witness ==
    \E s \in Slots :
      /\ Done(req[s], {"deploy"}) /\ req[s].result = "err" /\ req[s].error = "INTERNAL"
      /\ req[s].health = "failed" /\ req[s].failed_at = "none"
      /\ req[s].volume_name \in volumes
      /\ ImagePresent(req[s].image_tag)

PurgeSucceeded(r) == Done(r, {"purge"}) /\ r.result = "ok"
\* C29: after a purge that returned success the project's row, the container
\* its row named, its persistent volume if it has one, the Database row linked
\* to it and that row's tenant database and tenant user no longer exist.
C29_PurgeRemovesEverything ==
    \A s \in Slots :
      LET r == req[s] IN
      PurgeSucceeded(r) =>
        /\ ~HasRow(r.project.id)
        /\ ~ContainerExists(r.project.container_name)
        /\ r.project.persistent_volume_path # "none" => r.project.volume_name \notin volumes
        /\ get_database_by_project_id(r.project.id) = {}
        /\ r.linked_database # NoName =>
             /\ r.linked_database \notin tenantDbs
             /\ r.linked_database \notin tenantUsers

C29_Witness ==
    \E s \in Slots :
      /\ PurgeSucceeded(req[s])
      /\ req[s].linked_database = DbName("alice")
      /\ req[s].project.volume_name # NoName
      /\ req[s].project.container_name # NoName
      /\ projects = {} /\ containers = {} /\ volumes = {}
      /\ databases = {} /\ tenantDbs = {} /\ tenantUsers = {}

ExactlyOneSource(r) == (r.image_url # "none") # (r.github_repo_url # "none")
\* C30: a deploy request that supplies both image_url and github_repo_url, or
\* neither, is rejected: it ends with an error, and no image is pulled, no
\* repository cloned and no container created for it.
C30_ExactlyOneSourceAccepted ==
    \A s \in Slots :
      LET r == req[s] IN
      (r.kind = "deploy" /\ ~ExactlyOneSource(r)) =>
        /\ r.pc \in {"preconditions", "done"}
        /\ r.pc = "done" => r.result = "err"
        /\ r.image_tag = NoName /\ r.container_name = NoName

\* a deploy that supplied both sources has succeeded as a direct deploy
C30_Witness ==
    \E s \in Slots :
      /\ Done(req[s], {"deploy"}) /\ req[s].result = "ok"
      /\ req[s].image_url # "none" /\ req[s].github_repo_url # "none"
      /\ ContainerRunning(req[s].container_name)
      /\ \E p \in projects : p.name = req[s].project_name /\ p.source = "direct"

\* C31: in every reachable state of the store, after any sequence of deploys
\* and of participant additions and removals by owners and admins, no row of
\* project_participants names the owner of its project, and no
\* (project, participant) pair is stored more than once.
StoredOnce == \A x \in BagToSet(participants) : CopiesIn(x, participants) = 1
OwnerIsNoParticipant == \A p \in projects : ~BagIn(<<p.id, p.owner>>, participants)
C31_ParticipantsDistinctFromOwner == StoredOnce /\ OwnerIsNoParticipant

\* an admin who is not the owner has added a participant to one of two
\* projects that both have participants
C31_Witness ==
    /\ Cardinality(projects) = 2
    /\ \A p \in projects : \E u \in Users : BagIn(<<p.id, u>>, participants)
    /\ \E s \in Slots :
         /\ req[s].kind = "add_participant"
         /\ req[s].result = "ok"
         /\ req[s].is_admin
         /\ req[s].project.owner # req[s].user
         /\ BagIn(<<req[s].project_id, req[s].participants[1]>>, participants)

\* C32: the teardown operations are idempotent.  remove_container and
\* remove_volume_by_name return success, and change nothing, when the runtime
\* answers that the container or the volume does not exist; and a tenant
\* deprovisioning applied to a database right after a successful deprovisioning
\* of the same database succeeds again and leaves the runtime and the tenant
\* server unchanged.
Calls(kind) == nreq' = nreq + 1 /\ req'[1].kind = kind
Answered == req'[1].failed_at = "none"
Succeeds == req'[1].result = "ok" /\ UNCHANGED <<Runtime, Tenant>>
SecondDeprovisioning ==
    /\ Calls("execute_mariadb_deprovisioning")
    /\ req[1].kind = "execute_mariadb_deprovisioning"
    /\ req[1].result = "ok"
    /\ req[1].linked_database = req'[1].linked_database
C32_TeardownIdempotent ==
    [][/\ ((Calls("remove_container") /\ Answered
               /\ ~ContainerExists(req'[1].container_name)) => Succeeds)
        /\ ((Calls("remove_volume_by_name") /\ Answered
               /\ req'[1].volume_name \notin volumes) => Succeeds)
        /\ ((SecondDeprovisioning /\ Answered) => Succeeds)]_vars

\* alice's database and user, which existed, have been deprovisioned with
\* success twice in a row; before that a removal of p2's container, which had
\* been removed already, has succeeded
C32_Witness ==
    /\ nreq = 4
    /\ \A s \in Slots :
         /\ req[s].kind = "execute_mariadb_deprovisioning"
         /\ req[s].linked_database = DbName("alice")
         /\ req[s].result = "ok"
    /\ ~ContainerExists(ContainerName("p2", 0))
    /\ ContainerRunning(ContainerName("p1", 0))
    /\ DbName("alice") \notin tenantDbs \cup tenantUsers
    /\ faults = 0

\* C33: for every plaintext m and 32-byte key k, decrypt(encrypt(m, k), k) = m;
\* and decrypt returns one and the same error, which does not tell the cause,
\* for a blob shorter than 12 bytes, for a blob encrypted under another key,
\* and for a blob whose nonce or ciphertext has been altered.
Decrypted(r) == r.kind = "crypto" /\ r.pc = "done"
RoundTrip(r) ==
    (r.blob_is = "intact" /\ r.decrypt_key = r.key) => r.returned = CryptoOk(r.plaintext)
Rejected(r) ==
    \/ Len(r.blob) < 12
    \/ r.blob_is = "intact" /\ r.decrypt_key # r.key
    \/ r.blob_is \in {"nonce_altered", "ciphertext_altered"}
C33_CryptoRoundTripAndGenericError ==
    \A s \in {1} :
      Decrypted(req[s]) =>
        /\ RoundTrip(req[s])
        /\ Rejected(req[s]) => req[s].returned = CryptoErr

\* a plaintext with a two-byte character has come back from its blob
C33_Witness ==
    /\ Decrypted(req[1])
    /\ req[1].blob_is = "intact"
    /\ req[1].decrypt_key = req[1].key
    /\ req[1].plaintext = <<"eacute", "a">>
    /\ req[1].returned.error = "none"

\* C34: validate_project_name accepts a name if and only if it is non-empty,
\* at most 63 characters long, made only of ASCII letters, digits and '-',
\* and neither starts nor ends with '-'; on acceptance it returns the name in
\* lower case.  A name of 63 characters is accepted, one of 64 is rejected.
Validated(r) == r.kind = "validate_project_name" /\ r.pc = "done"
AsciiNameChars == {"a", "Z", "7", "-"}
WellFormedName(name) ==
    /\ Len(name) >= 1
    /\ Len(name) <= 63
    /\ \A i \in 1..Len(name) : name[i] \in AsciiNameChars
    /\ name[1] # "-"
    /\ name[Len(name)] # "-"
InLowerCase(name, value) ==
    /\ Len(value) = Len(name)
    /\ \A i \in 1..Len(name) :
         value[i] = (CASE name[i] = "Z" -> "z" [] OTHER -> name[i])
C34_ProjectNameValidation ==
    \A s \in {1} :
      LET r == req[s] IN
      Validated(r) =>
        /\ r.returned.error = "none" <=> WellFormedName(r.name)
        /\ r.returned.error = "none" => InLowerCase(r.name, r.returned.value)
        /\ r.returned.error \in {"none", "INVALID_PROJECT_NAME"}

\* a name of 63 characters with an upper-case letter has been accepted
C34_Witness ==
    /\ Validated(req[1])
    /\ Len(req[1].name) = 63
    /\ req[1].name[1] = "Z"
    /\ req[1].returned.error = "none"
    /\ req[1].returned.value[1] = "z"

\* C35: under any interleaving of subscribe_to_project or subscribe_to_creation
\* with emissions, per-channel cleanups and GC runs on the same key, a receiver
\* that subscribe has returned is attached to the channel the registry holds
\* for its key for as long as it lives, so that every event emitted on the key
\* afterwards reaches it.
Registry(kind) == IF kind = "project" THEN project_channels ELSE creation_channels
Attached(r) == [key |-> r.key, ch |-> r.ch] \in Registry(r.kind)
C35_ReceiverStaysRegistered ==
    \A c \in ClientIds : clients[c].pc = "streaming" => Attached(clients[c])

\* a receiver is attached to the registered channel of its project and an
\* event emitted after its subscription is retained for it
C35_Witness ==
    \E c \in ClientIds :
      /\ clients[c].pc = "streaming"
      /\ clients[c].kind = "project"
      /\ Attached(clients[c])
      /\ senders[clients[c].ch].sent > clients[c].start

\* C36: in every deploy, image update or rebuild run at most one terminal
\* event is emitted, Completed or Failed and never both, and no deployment
\* stage event of the run is emitted after it.
TerminalEvents(r) == {i \in 1..Len(r.events) : r.events[i].stage \in {"failed", "completed"}}
OneTerminalEventLast(r) ==
    /\ Cardinality(TerminalEvents(r)) <= 1
    /\ \A i \in TerminalEvents(r) : i = Len(r.events)
C36_OneTerminalEvent ==
    \A s \in Slots :
      req[s].kind \in {"deploy", "update_image", "rebuild"} => OneTerminalEventLast(req[s])

\* an image update has failed at the creation of its new container: Failed is
\* its only terminal event and its last event
C36_Witness ==
    \E s \in Slots :
      /\ req[s].kind = "update_image"
      /\ req[s].pc = "done"
      /\ req[s].result = "err"
      /\ Cardinality(TerminalEvents(req[s])) = 1
      /\ OneTerminalEventLast(req[s])
      /\ Emitted(req[s], "creating_container")

\* C37: when two deploys of the same project name by different owners run
\* concurrently, at most one commits a project row, and after both have
\* returned the container, the volume and the image of the committed project
\* still exist: the rollback of the losing deploy removes none of them.
BothDeploysReturned ==
    /\ \A s \in Slots : req[s].kind = "deploy" /\ req[s].pc = "done"
    /\ req[1].user # req[2].user
    /\ req[1].project_name = req[2].project_name
ResourcesExist(p) ==
    /\ ContainerExists(p.container_name)
    /\ p.volume_name # NoName => p.volume_name \in volumes
    /\ \E i \in images : i.digest = p.deployed_image_digest
C37_LoserSparesWinner ==
    /\ \A p, q \in projects : p.name = q.name => p = q
    /\ BothDeploysReturned => \A p \in projects : ResourcesExist(p)

\* one of two deploys of a name has committed, the other was refused
C37_Witness ==
    /\ BothDeploysReturned
    /\ \E s \in Slots : req[s].result = "ok"
    /\ \E s \in Slots : req[s].result = "err"
    /\ Cardinality(projects) = 1

\* C38: a tenant provisioning attempt that fails drops only what it created:
\* when CREATE DATABASE or CREATE USER fails because the owner's tenant
\* database or user already exists (a concurrent provisioning for the same
\* owner), its rollback drops neither, so that a Database row never is without
\* its tenant database and user.
C38_RollbackDropsOnlyItsOwn ==
    \A d \in databases : d.database_name \in tenantDbs /\ d.username \in tenantUsers

\* a deploy whose provisioning was refused has rolled back and returned, and
\* the owner has a Database row from the other deploy
C38_Witness ==
    \E s \in Slots :
      /\ Done(req[s], {"deploy"}) /\ req[s].create_database
      /\ req[s].failed_at = "provision"
      /\ \E d \in databases : d.owner_login = req[s].user

\* C39: when a purge returns an error at any step (database deprovisioning,
\* container removal, volume removal, row deletion), the project is left
\* consistent: its row still exists and the container the row names still
\* exists in the runtime.
PurgeFailed(r) ==
    /\ Done(r, {"purge"})
    /\ r.result = "err"
    /\ r.failed_at \in {"purge_database", "purge_runtime", "purge_delete"}
C39_FailedPurgeKeepsContainer ==
    \A s \in Slots :
      LET r == req[s] IN
      (PurgeFailed(r) /\ r.old_was_running) =>
        \E p \in projects : p.id = r.project.id /\ ContainerExists(p.container_name)

\* a purge of a project with a running container has failed
C39_Witness ==
    \E s \in Slots :
      /\ PurgeFailed(req[s])
      /\ req[s].old_was_running
      /\ \E p \in projects : p.id = req[s].project.id

\* C40: deprovision_database either removes both the tenant database with its
\* user and the Database row, or leaves both in place: whenever it returns an
\* error, the tenant database has not been dropped while its Database row is
\* still in the store.
DeprovisionFailed(r) ==
    Done(r, {"purge"}) /\ r.result = "err" /\ r.failed_at = "purge_database"
RowOf(name) == {d \in databases : d.database_name = name}
C40_DeprovisionAllOrNothing ==
    \A s \in Slots :
      LET r == req[s] IN
      DeprovisionFailed(r) => ~(r.linked_database \notin tenantDbs /\ RowOf(r.linked_database) # {})

\* a deprovisioning has failed at its first statement: database and row remain
C40_Witness ==
    \E s \in Slots :
      /\ DeprovisionFailed(req[s])
      /\ req[s].linked_database \in tenantDbs
      /\ RowOf(req[s].linked_database) # {}

====
